---- MODULE Spec2Model ----
(***************************************************************************)
(* PINAI connector for OpenClaw: the connection and polling orchestration. *)
(*                                                                         *)
(* State machines over one set of variables:                               *)
(*   Spec          DesktopConnectorManager: pairing, registration file,    *)
(*                 registration watcher, disconnect                        *)
(*   SpecCommands  DesktopConnectorManager: command polling and disconnect *)
(*   SpecChat      the pinai-chat service: AgentHubChatManager with its    *)
(*                 HeartbeatService and MessagePoller, and the credentials *)
(*                 file with the processed-ID ledger                       *)
(*   SpecLedger    the processed-ID ledger at its real capacity            *)
(* Node's event loop runs one callback at a time, so every action below is *)
(* the code between two awaits of one handler.                             *)
(***************************************************************************)
EXTENDS Integers, Sequences, FiniteSets, TLC

(* ------------------------------ bounds --------------------------------- *)
\* generateQRCode calls in one run
MaxPairings == 2
\* fetches of one kind awaiting their response at the same time
MaxInflight == 1
\* event counters stop counting here
MaxCount == 2
\* commands in one /commands/poll response
MaxCmdBatch == 2
\* days the clock runs
MaxNow == 2
\* addProcessedMessageId calls SpecLedger follows
MaxInserts == 3
\* the largest maxRetries a withRetry call asks for
MaxCustomRetries == 3
\* consecutive failures the model follows
MaxFailures == 12
\* calls of AgentHubChatManager.start in progress at one time
MaxStarts == 1
\* start() calls of one poller awaiting at one time, when they overlap
MaxOverlap == 2
\* messages in one getMessages response
MaxBatch == 2
\* the cacheForSync calls made on one pending-data file
MaxCached == 2
\* the ErrorHandlers constructed after the first on one pending-data file
MaxRestarts == 1
\* the connectivity probes of one ErrorHandler
MaxProbes == 12
\* the pairing poll's attempt cap; 60 in the source, scaled down
maxAttempts == 1

(* --------------------------- program constants ------------------------- *)
\* 24 * 60 * 60 * 1000 ms, in days
ONE_DAY_MS == 1
\* entries addProcessedMessageId keeps in processedMessageIds
LedgerCapacity == 1000
\* consecutiveFailures at which recordError emits 'circuit-breaker-triggered'
CircuitBreakerThreshold == 10

VARIABLES
  \* DesktopConnectorManager fields
  registration, status, currentToken, heartbeatTimer, commandPollTimer,
  reconnectTimer, registrationWatcher, workContextDeps,
  isCollectingWorkContext, lastWorkContextReportTime,
  \* the registration file
  regFile,
  \* timers and requests the event loop holds
  heartbeatIntervals, commandPollIntervals, pairings, hbInflight, cmdInflight,
  wcCollecting, wcPosting, disc, now,
  \* history: events emitted, and whether disconnect was the last operation
  aiPromptEmits, tokenExpiredEmits, quiesced,
  \* history: a sendHeartbeat found a report due while the collection now in
  \* flight was running
  wcSkipped,
  \* the pinai-chat service: the credentials file, the chat manager with its
  \* heartbeat service and message poller, pending requests, events emitted
  chat,
  \* an ErrorHandler: its strategy, its statistics, one withRetry call
  errorHandler,
  \* the service's handling of one command and of one chat message
  processing,
  \* the credentials file as two processes read and write it
  store,
  \* the registration file as text, with what was last saved and loaded
  registrationStore

connVars == <<registration, status, currentToken, heartbeatTimer,
              commandPollTimer, reconnectTimer, registrationWatcher,
              workContextDeps, isCollectingWorkContext,
              lastWorkContextReportTime, regFile, heartbeatIntervals,
              commandPollIntervals, pairings, hbInflight, cmdInflight,
              wcCollecting, wcPosting, disc, now, aiPromptEmits,
              tokenExpiredEmits, quiesced, wcSkipped>>

vars == <<connVars, chat, errorHandler, processing, store, registrationStore>>

\* what the connector's actions leave alone, and what the chat's do
besideConn == <<chat, errorHandler, processing, store, registrationStore>>
besideChat == <<connVars, errorHandler, processing, store, registrationStore>>
besideErrorHandler == <<connVars, chat, processing, store, registrationStore>>
besideProcessing == <<connVars, chat, errorHandler, store, registrationStore>>
besideStore == <<connVars, chat, errorHandler, processing, registrationStore>>
besideRegistrationStore == <<connVars, chat, errorHandler, processing, store>>

(* ------------------------------ values --------------------------------- *)
\* connector ids: the backend's status check answers with one of
\* PollConnectorIds, the CLI writes a registration with one of ConnectorIds
ConnectorIds == {"cA", "cB"}
PollConnectorIds == {"cA"}
CommandIds == {"k1"}
CommandTypes == {"ai_prompt", "other"}

\* a pairing token is the number of the generateQRCode call that got it;
\* 0 is null; the token of a registration written by the CLI is ExternalToken
ExternalToken == MaxPairings + 1

\* this.registration = null, and an absent registration file
NullReg == [connectorId |-> "", token |-> 0, lastWorkContextReportTime |-> 0]

Reg(c, t, last) == [connectorId |-> c, token |-> t, lastWorkContextReportTime |-> last]

Sat(n) == IF n < MaxCount THEN n + 1 ELSE n

SatInflight(n) == IF n < MaxInflight THEN n + 1 ELSE n

\* BoundedSeq(S, n): the sequences over S of length at most n
BoundedSeq(S, n) == UNION {[1..k -> S] : k \in 0..n}

(* ------------------------- registration store -------------------------- *)
\* loadRegistration: null when the file is absent or lacks a required field
\* a loadRegistration that returns whatever the file holds
loadRegistration_Unvalidated(file) == file

loadRegistration(file) == IF file.connectorId = "" \/ file.token = 0 THEN NullReg ELSE file

\* clearRegistration: unlink the file
clearRegistration == NullReg

(* ------------------- DesktopConnectorManager: helpers ------------------ *)
hbGroup == <<heartbeatTimer, heartbeatIntervals, hbInflight,
             isCollectingWorkContext, wcCollecting, wcSkipped>>
cmdGroup == <<commandPollTimer, commandPollIntervals, cmdInflight>>

\* collectAndReportWorkContext up to its first await (collectWorkContext)
collectAndReportWorkContext(reg) ==
  IF reg = NullReg \/ isCollectingWorkContext
  THEN UNCHANGED <<isCollectingWorkContext, wcCollecting>>
  ELSE /\ isCollectingWorkContext' = TRUE
       /\ wcCollecting' = wcCollecting + 1

\* a sendHeartbeat that starts a collection whenever a report is due
sendHeartbeat_Unguarded(reg, last) ==
  IF reg = NullReg
  THEN UNCHANGED <<hbInflight, isCollectingWorkContext, wcCollecting, wcSkipped>>
  ELSE /\ IF now - last >= ONE_DAY_MS
          THEN /\ isCollectingWorkContext' = TRUE
               /\ wcCollecting' = wcCollecting + 1
               /\ wcSkipped' = isCollectingWorkContext
          ELSE UNCHANGED <<isCollectingWorkContext, wcCollecting, wcSkipped>>
       /\ hbInflight' = SatInflight(hbInflight)

\* sendHeartbeat up to its await (the heartbeat POST); reg and last are
\* this.registration and this.lastWorkContextReportTime as the caller left them
sendHeartbeat(reg, last) ==
  IF reg = NullReg
  THEN UNCHANGED <<hbInflight, isCollectingWorkContext, wcCollecting, wcSkipped>>
  ELSE /\ IF now - last >= ONE_DAY_MS /\ ~isCollectingWorkContext
          THEN /\ collectAndReportWorkContext(reg)
               /\ wcSkipped' = FALSE
          ELSE /\ UNCHANGED <<isCollectingWorkContext, wcCollecting>>
               /\ wcSkipped' = (wcSkipped \/ now - last >= ONE_DAY_MS)
       /\ hbInflight' = SatInflight(hbInflight)

\* a startHeartbeat that schedules an interval without clearing the held one
startHeartbeat_NoClear(reg, last) ==
  /\ heartbeatTimer' = TRUE
  /\ heartbeatIntervals' = heartbeatIntervals + 1
  /\ sendHeartbeat(reg, last)

\* startHeartbeat: clear the held interval, schedule a new one, send at once
startHeartbeat(reg, last) ==
  /\ heartbeatTimer' = TRUE
  /\ heartbeatIntervals' =
       (IF heartbeatTimer THEN heartbeatIntervals - 1 ELSE heartbeatIntervals) + 1
  /\ sendHeartbeat(reg, last)

\* pollCommands up to its await (the poll GET)
pollCommands(reg) ==
  IF reg = NullReg
  THEN UNCHANGED cmdInflight
  ELSE cmdInflight' = SatInflight(cmdInflight)

\* a startCommandPolling that polls once and schedules nothing
startCommandPolling_PollOnly(reg) ==
  /\ UNCHANGED <<commandPollTimer, commandPollIntervals>>
  /\ pollCommands(reg)

\* startCommandPolling: clear the held interval, schedule a new one, poll at once
startCommandPolling(reg) ==
  /\ commandPollTimer' = TRUE
  /\ commandPollIntervals' =
       (IF commandPollTimer THEN commandPollIntervals - 1 ELSE commandPollIntervals) + 1
  /\ pollCommands(reg)

\* startRegistrationWatcher: whether a watcher is held after it
startRegistrationWatcher(watcher, reg) ==
  IF watcher \/ reg # NullReg THEN watcher ELSE TRUE

(* ------------------------------- Init ---------------------------------- *)
\* the registration file the constructor finds
InitialFiles == {NullReg, Reg("cA", ExternalToken, 0)}

DisconnectOptions ==
  [clearRegistration : BOOLEAN, watchForRegistration : {"unset", "true", "false"},
   deleteRemote : BOOLEAN]

\* disconnect() with no options
DefaultOptions ==
  [clearRegistration |-> TRUE, watchForRegistration |-> "unset", deleteRemote |-> FALSE]

\* no disconnect call yet
NoDisconnect == [phase |-> "idle", opts |-> DefaultOptions, result |-> "none"]

\* new DesktopConnectorManager(config)
ConnConstructed ==
  /\ registration = loadRegistration(regFile)
  /\ status = IF loadRegistration(regFile) # NullReg THEN "connected" ELSE "disconnected"
  /\ lastWorkContextReportTime = loadRegistration(regFile).lastWorkContextReportTime
  /\ registrationWatcher = startRegistrationWatcher(FALSE, loadRegistration(regFile))
  /\ currentToken = 0
  /\ heartbeatTimer = FALSE
  /\ commandPollTimer = FALSE
  /\ reconnectTimer = FALSE
  /\ workContextDeps = FALSE
  /\ isCollectingWorkContext = FALSE
  /\ heartbeatIntervals = 0
  /\ commandPollIntervals = 0
  /\ pairings = <<>>
  /\ hbInflight = 0
  /\ cmdInflight = 0
  /\ wcCollecting = 0
  /\ wcPosting = 0
  /\ wcSkipped = FALSE
  /\ disc = NoDisconnect
  /\ now = 1
  /\ aiPromptEmits = [k \in CommandIds |-> 0]
  /\ tokenExpiredEmits = 0
  /\ quiesced = FALSE

\* the manager constructed on one of the registration files
ConnInit == regFile \in InitialFiles /\ ConnConstructed

(* ------------------------------ actions -------------------------------- *)
\* setWorkContextDependencies(deps), called once by the service's start
SetWorkContextDependencies ==
  /\ ~workContextDeps
  /\ workContextDeps' = TRUE
  /\ IF registration # NullReg /\ status = "connected"
     THEN /\ startHeartbeat(registration, lastWorkContextReportTime)
          /\ startCommandPolling(registration)
     ELSE UNCHANGED <<hbGroup, cmdGroup>>
  /\ UNCHANGED <<registration, status, currentToken, reconnectTimer,
                 registrationWatcher, lastWorkContextReportTime, regFile,
                 pairings, wcPosting, disc, now, aiPromptEmits,
                 tokenExpiredEmits, quiesced>>
  /\ UNCHANGED besideConn

\* the fs.watch callback of startRegistrationWatcher; the service sets the
\* dependencies in the turn that constructs the manager, before any callback
WatcherEvent ==
  /\ workContextDeps
  /\ registrationWatcher
  /\ LET saved == loadRegistration(regFile) IN
     IF saved = NullReg
        \/ (registration # NullReg /\ registration.connectorId = saved.connectorId)
     THEN UNCHANGED connVars
     ELSE /\ registration' = saved
          /\ status' = "connected"
          /\ lastWorkContextReportTime' = saved.lastWorkContextReportTime
          /\ IF workContextDeps
             THEN /\ startHeartbeat(saved, saved.lastWorkContextReportTime)
                  /\ startCommandPolling(saved)
             ELSE UNCHANGED <<hbGroup, cmdGroup>>
          /\ registrationWatcher' = FALSE
          /\ quiesced' = FALSE
          /\ UNCHANGED <<currentToken, reconnectTimer, workContextDeps, regFile,
                         pairings, wcPosting, disc, now, aiPromptEmits,
                         tokenExpiredEmits>>
  /\ UNCHANGED besideConn

\* another process (the CLI) writes the registration file
ExternalWrite(c) ==
  /\ regFile # Reg(c, ExternalToken, 0)
  /\ regFile' = Reg(c, ExternalToken, 0)
  /\ UNCHANGED <<registration, status, currentToken, reconnectTimer,
                 registrationWatcher, workContextDeps,
                 lastWorkContextReportTime, pairings, hbGroup, cmdGroup,
                 wcPosting, disc, now, aiPromptEmits, tokenExpiredEmits,
                 quiesced>>
  /\ UNCHANGED besideConn

\* a generateQRCode that stores a token and starts its timer and poll
\* whatever the token request answered
GenerateQRCode_WhateverTheAnswer(ok) ==
  /\ workContextDeps
  /\ Len(pairings) < MaxPairings
  /\ currentToken' = Len(pairings) + 1
  /\ pairings' = Append(pairings,
       [live |-> TRUE, attempts |-> 0, inflight |-> 0, expiry |-> TRUE,
        sawRegistered |-> FALSE, expired |-> FALSE])
  /\ quiesced' = FALSE
  /\ UNCHANGED <<registration, status, reconnectTimer,
                 registrationWatcher, workContextDeps,
                 lastWorkContextReportTime, regFile, hbGroup, cmdGroup,
                 wcPosting, disc, now, aiPromptEmits, tokenExpiredEmits>>
  /\ UNCHANGED besideConn

\* generateQRCode(deviceName); ok: the qr-token POST returned 2xx
GenerateQRCode(ok) ==
  /\ workContextDeps
  /\ Len(pairings) < MaxPairings
  /\ IF ~ok
     THEN UNCHANGED connVars
     ELSE /\ currentToken' = Len(pairings) + 1
          /\ pairings' = Append(pairings,
               [live |-> TRUE, attempts |-> 0, inflight |-> 0, expiry |-> TRUE,
                sawRegistered |-> FALSE, expired |-> FALSE])
          /\ quiesced' = FALSE
          /\ UNCHANGED <<registration, status, reconnectTimer,
                         registrationWatcher, workContextDeps,
                         lastWorkContextReportTime, regFile, hbGroup, cmdGroup,
                         wcPosting, disc, now, aiPromptEmits, tokenExpiredEmits>>
  /\ UNCHANGED besideConn

\* the token expiration timer of the i-th generateQRCode call fires
ExpiryTimer(i) ==
  /\ i \in DOMAIN pairings
  /\ pairings[i].expiry
  /\ IF currentToken # 0 /\ registration = NullReg
     THEN /\ tokenExpiredEmits' = Sat(tokenExpiredEmits)
          /\ currentToken' = 0
          \* 'token-expired' carries the current token: expired records it
          \* for this call's attempt when the token is this call's
          /\ pairings' = [pairings EXCEPT ![i].expiry = FALSE,
                                          ![i].expired = @ \/ currentToken = i]
     ELSE /\ pairings' = [pairings EXCEPT ![i].expiry = FALSE]
          /\ UNCHANGED <<tokenExpiredEmits, currentToken>>
  /\ UNCHANGED <<registration, status, reconnectTimer, registrationWatcher,
                 workContextDeps, lastWorkContextReportTime, regFile, hbGroup,
                 cmdGroup, wcPosting, disc, now, aiPromptEmits, quiesced>>
  /\ UNCHANGED besideConn

\* a tick of the i-th pairing poll with attempts >= maxAttempts
PairingTickCap(i) ==
  /\ i \in DOMAIN pairings
  /\ pairings[i].live
  /\ pairings[i].attempts >= maxAttempts
  /\ pairings' = [pairings EXCEPT ![i].live = FALSE, ![i].expired = TRUE]
  /\ tokenExpiredEmits' = Sat(tokenExpiredEmits)
  /\ currentToken' = 0
  /\ UNCHANGED <<registration, status, reconnectTimer, registrationWatcher,
                 workContextDeps, lastWorkContextReportTime, regFile, hbGroup,
                 cmdGroup, wcPosting, disc, now, aiPromptEmits, quiesced>>
  /\ UNCHANGED besideConn

\* a tick of the i-th pairing poll up to its await (the status GET)
PairingTickFetch(i) ==
  /\ i \in DOMAIN pairings
  /\ pairings[i].live
  /\ pairings[i].attempts < maxAttempts
  /\ pairings[i].inflight < MaxInflight
  /\ pairings' = [pairings EXCEPT ![i].inflight = @ + 1]
  /\ UNCHANGED <<registration, status, currentToken, reconnectTimer,
                 registrationWatcher, workContextDeps,
                 lastWorkContextReportTime, regFile, hbGroup, cmdGroup,
                 wcPosting, disc, now, aiPromptEmits, tokenExpiredEmits,
                 quiesced>>
  /\ UNCHANGED besideConn

\* what the status GET can bring: a rejected fetch or non-2xx (ok = FALSE), or
\* the JSON body; saveOk: writeFileSync in saveRegistration does not throw
StatusResponses ==
  [ok : BOOLEAN, registered : BOOLEAN, expired : BOOLEAN,
   connector_id : PollConnectorIds, saveOk : BOOLEAN]

\* the rest of a tick of the i-th pairing poll, after the status GET
PairingResponse(i, r) ==
  /\ i \in DOMAIN pairings
  /\ pairings[i].inflight > 0
  /\ IF ~r.ok
     THEN /\ pairings' = [pairings EXCEPT ![i].inflight = @ - 1, ![i].attempts = @ + 1]
          /\ UNCHANGED <<registration, status, currentToken, regFile, hbGroup,
                         cmdGroup, tokenExpiredEmits>>
     ELSE IF r.registered
     THEN IF r.saveOk
          THEN /\ pairings' = [pairings EXCEPT ![i].inflight = @ - 1, ![i].live = FALSE,
                                               ![i].sawRegistered = TRUE]
               /\ registration' = Reg(r.connector_id, i, 0)
               /\ regFile' = Reg(r.connector_id, i, 0)
               /\ status' = "connected"
               /\ currentToken' = 0
               /\ startHeartbeat(Reg(r.connector_id, i, 0), lastWorkContextReportTime)
               /\ startCommandPolling(Reg(r.connector_id, i, 0))
               /\ UNCHANGED tokenExpiredEmits
          ELSE /\ pairings' = [pairings EXCEPT ![i].inflight = @ - 1,
                                               ![i].live = FALSE,
                                               ![i].attempts = @ + 1,
                                               ![i].sawRegistered = TRUE]
               /\ registration' = Reg(r.connector_id, i, 0)
               /\ UNCHANGED <<status, currentToken, regFile, hbGroup, cmdGroup,
                              tokenExpiredEmits>>
     ELSE IF r.expired
     THEN /\ pairings' = [pairings EXCEPT ![i].inflight = @ - 1, ![i].live = FALSE,
                                          ![i].expired = TRUE]
          /\ tokenExpiredEmits' = Sat(tokenExpiredEmits)
          /\ currentToken' = 0
          /\ UNCHANGED <<registration, status, regFile, hbGroup, cmdGroup>>
     ELSE /\ pairings' = [pairings EXCEPT ![i].inflight = @ - 1, ![i].attempts = @ + 1]
          /\ UNCHANGED <<registration, status, currentToken, regFile, hbGroup,
                         cmdGroup, tokenExpiredEmits>>
  /\ UNCHANGED <<reconnectTimer, registrationWatcher, workContextDeps,
                 lastWorkContextReportTime, wcPosting, disc, now,
                 aiPromptEmits, quiesced>>
  /\ UNCHANGED besideConn

\* a tick of the heartbeat interval: sendHeartbeat up to its await
HeartbeatTick ==
  /\ heartbeatIntervals > 0
  /\ hbInflight < MaxInflight
  /\ sendHeartbeat(registration, lastWorkContextReportTime)
  /\ UNCHANGED <<registration, status, currentToken, reconnectTimer,
                 registrationWatcher, workContextDeps,
                 lastWorkContextReportTime, regFile, pairings, heartbeatTimer,
                 heartbeatIntervals, cmdGroup, wcPosting, disc, now,
                 aiPromptEmits, tokenExpiredEmits, quiesced>>
  /\ UNCHANGED besideConn

\* the rest of sendHeartbeat: 'heartbeat-sent' or 'error', no field changes
HeartbeatResponse ==
  /\ hbInflight > 0
  /\ hbInflight' = hbInflight - 1
  /\ UNCHANGED <<registration, status, currentToken, reconnectTimer,
                 registrationWatcher, workContextDeps,
                 lastWorkContextReportTime, regFile, pairings, heartbeatTimer,
                 heartbeatIntervals, isCollectingWorkContext, wcCollecting,
                 wcSkipped, cmdGroup, wcPosting, disc, now, aiPromptEmits,
                 tokenExpiredEmits, quiesced>>
  /\ UNCHANGED besideConn

\* collectWorkContext settled; result: "throw", "empty" (context shorter than
\* 5 characters) or "ok"
WorkContextCollected(result) ==
  /\ wcCollecting > 0
  /\ wcCollecting' = wcCollecting - 1
  /\ IF result = "ok" /\ registration # NullReg
     THEN /\ wcPosting' = wcPosting + 1
          /\ UNCHANGED isCollectingWorkContext
     ELSE /\ isCollectingWorkContext' = FALSE
          /\ UNCHANGED wcPosting
  /\ UNCHANGED <<registration, status, currentToken, reconnectTimer,
                 registrationWatcher, workContextDeps,
                 lastWorkContextReportTime, regFile, pairings, heartbeatTimer,
                 heartbeatIntervals, hbInflight, wcSkipped, cmdGroup, disc, now,
                 aiPromptEmits, tokenExpiredEmits, quiesced>>
  /\ UNCHANGED besideConn

\* the work-context POST settled; resolved: fetch returned a response;
\* accepted: its status is 2xx, which the code does not look at; saveOk:
\* writeFileSync in saveRegistration does not throw
WorkContextPosted(resolved, accepted, saveOk) ==
  /\ wcPosting > 0
  /\ wcPosting' = wcPosting - 1
  /\ isCollectingWorkContext' = FALSE
  /\ IF resolved
     THEN /\ lastWorkContextReportTime' = now
          /\ IF registration # NullReg
             THEN /\ registration' = [registration EXCEPT !.lastWorkContextReportTime = now]
                  /\ regFile' = IF saveOk
                                THEN [registration EXCEPT !.lastWorkContextReportTime = now]
                                ELSE regFile
             ELSE UNCHANGED <<registration, regFile>>
     ELSE UNCHANGED <<lastWorkContextReportTime, registration, regFile>>
  /\ UNCHANGED <<status, currentToken, reconnectTimer, registrationWatcher,
                 workContextDeps, pairings, heartbeatTimer, heartbeatIntervals,
                 hbInflight, wcCollecting, wcSkipped, cmdGroup, disc, now,
                 aiPromptEmits, tokenExpiredEmits, quiesced>>
  /\ UNCHANGED besideConn

\* a day passes
AdvanceClock ==
  /\ now < MaxNow
  /\ now' = now + 1
  /\ UNCHANGED <<registration, status, currentToken, reconnectTimer,
                 registrationWatcher, workContextDeps,
                 lastWorkContextReportTime, regFile, pairings, hbGroup,
                 cmdGroup, wcPosting, disc, aiPromptEmits, tokenExpiredEmits,
                 quiesced>>
  /\ UNCHANGED besideConn

\* a tick of the command-poll interval: pollCommands up to its await
CommandPollTick ==
  /\ commandPollIntervals > 0
  /\ cmdInflight < MaxInflight
  /\ pollCommands(registration)
  /\ UNCHANGED <<registration, status, currentToken, reconnectTimer,
                 registrationWatcher, workContextDeps,
                 lastWorkContextReportTime, regFile, pairings, hbGroup,
                 commandPollTimer, commandPollIntervals, wcPosting, disc, now,
                 aiPromptEmits, tokenExpiredEmits, quiesced>>
  /\ UNCHANGED besideConn

Commands == [command_id : CommandIds, command_type : CommandTypes]

\* executeCommand for each command of the response, in order: 'ai-prompt' for
\* an ai_prompt command, a failed result reported for any other type
ExecuteCommands(emits, commands) ==
  LET RECURSIVE run(_, _)
      run(e, k) ==
        IF k > Len(commands) THEN e
        ELSE IF commands[k].command_type = "ai_prompt"
             THEN run([e EXCEPT ![commands[k].command_id] = Sat(@)], k + 1)
             ELSE run(e, k + 1)
  IN run(emits, 1)

\* the rest of pollCommands; ok: the poll GET returned 2xx with this array
CommandPollResponse(ok, commands) ==
  /\ cmdInflight > 0
  /\ cmdInflight' = cmdInflight - 1
  /\ aiPromptEmits' = IF ok THEN ExecuteCommands(aiPromptEmits, commands)
                      ELSE aiPromptEmits
  /\ UNCHANGED <<registration, status, currentToken, reconnectTimer,
                 registrationWatcher, workContextDeps,
                 lastWorkContextReportTime, regFile, pairings, hbGroup,
                 commandPollTimer, commandPollIntervals, wcPosting, disc, now,
                 tokenExpiredEmits, quiesced>>
  /\ UNCHANGED besideConn

\* options.watchForRegistration, defaulting to options.clearRegistration !== false
shouldWatch(o) ==
  IF o.watchForRegistration = "unset" THEN o.clearRegistration
  ELSE o.watchForRegistration = "true"

\* shouldClear && (!needsRemoteSuccess || remoteOk)
shouldClearFile(o, remoteOk) ==
  o.clearRegistration /\ (~o.deleteRemote \/ remoteOk)

\* history: the case a finished disconnect call was, from its options, whether
\* this.registration was held at the call, and how the disconnect POST ended
DisconnectCase(o, hadRegistration, remoteOk) ==
  IF ~hadRegistration THEN "noRegistration"
  ELSE IF o.deleteRemote /\ ~remoteOk THEN "remoteFailedRequired"
  ELSE IF ~o.clearRegistration THEN "clearNotRequested"
  ELSE "clearDue"

\* disconnect(options) up to its await (the disconnect POST), or to its end
\* when this.registration is null
DisconnectCall(o) ==
  /\ workContextDeps
  /\ disc.phase # "awaiting"
  /\ heartbeatTimer' = FALSE
  /\ heartbeatIntervals' = IF heartbeatTimer THEN heartbeatIntervals - 1
                           ELSE heartbeatIntervals
  /\ commandPollTimer' = FALSE
  /\ commandPollIntervals' = IF commandPollTimer THEN commandPollIntervals - 1
                             ELSE commandPollIntervals
  /\ reconnectTimer' = FALSE
  /\ quiesced' = TRUE
  /\ IF registration # NullReg
     THEN /\ disc' = [phase |-> "awaiting", opts |-> o, result |-> "none"]
          /\ registrationWatcher' = FALSE
          /\ UNCHANGED <<registration, status>>
     ELSE /\ disc' = [phase |-> "returned", opts |-> DefaultOptions,
                      result |-> DisconnectCase(o, FALSE, FALSE)]
          /\ registration' = NullReg
          /\ status' = "disconnected"
          /\ registrationWatcher' =
               IF shouldWatch(o) THEN startRegistrationWatcher(FALSE, NullReg)
               ELSE FALSE
  /\ UNCHANGED <<currentToken, workContextDeps, lastWorkContextReportTime,
                 regFile, pairings, hbInflight, isCollectingWorkContext,
                 wcCollecting, wcSkipped, cmdInflight, wcPosting, now, aiPromptEmits,
                 tokenExpiredEmits>>
  /\ UNCHANGED besideConn

\* the rest of disconnect; remoteOk: the disconnect POST returned 2xx
DisconnectFinish(remoteOk) ==
  /\ disc.phase = "awaiting"
  /\ disc' = [phase |-> "returned", opts |-> DefaultOptions,
              result |-> DisconnectCase(disc.opts, TRUE, remoteOk)]
  /\ regFile' = IF shouldClearFile(disc.opts, remoteOk) THEN clearRegistration
                ELSE regFile
  /\ registration' = NullReg
  /\ status' = "disconnected"
  /\ registrationWatcher' =
       IF shouldWatch(disc.opts)
       THEN startRegistrationWatcher(registrationWatcher, NullReg)
       ELSE registrationWatcher
  /\ UNCHANGED <<currentToken, reconnectTimer, workContextDeps,
                 lastWorkContextReportTime, pairings, hbGroup, cmdGroup,
                 wcPosting, now, aiPromptEmits, tokenExpiredEmits, quiesced>>
  /\ UNCHANGED besideConn

(* ======================= the pinai-chat service ======================== *)
MsgIds == {"m1"}

\* a message of a getMessages response; fromPeer: msg.from === peerId
Messages == [id : MsgIds, fromPeer : BOOLEAN]

\* the awaits of the chat service; chat.pending counts the calls at each:
\*   start.online         AgentHubChatManager.start awaits client.sendHeartbeat
\*   start.heartbeat      HeartbeatService.start awaits its first sendHeartbeat
\*   start.conversations  MessagePoller.start, pollMessages awaits getConversations
\*   start.messages       MessagePoller.start, processConversation awaits getMessages
\*   start.offline        cleanup of a failed start awaits the offline heartbeat
\*   gatewayStop.offline, serviceStop.offline   stop awaits the offline heartbeat
\*   tick.heartbeat, tick.conversations, tick.messages   the same awaits of a
\*                        timer tick
\*   stop.offline         HeartbeatService.stop called on its own awaits the
\*                        offline heartbeat
StartAwaits == {"start.online", "start.heartbeat", "start.conversations",
                "start.messages", "start.offline"}
StopAwaits == {"gatewayStop.offline", "serviceStop.offline", "stop.offline"}
TickAwaits == {"tick.heartbeat", "tick.conversations", "tick.messages"}
Awaits == StartAwaits \cup StopAwaits \cup TickAwaits

RECURSIVE SumOver(_, _)
SumOver(f, S) ==
  IF S = {} THEN 0
  ELSE LET x == CHOOSE y \in S : TRUE IN f[x] + SumOver(f, S \ {x})

\* the credentials file; present = FALSE: loadAgentHubCredentials() is null
NoCredentials ==
  [present |-> FALSE, enabled |-> FALSE, processedMessageIds |-> <<>>,
   lastHeartbeat |-> 0]

Credentials(enabled, ids) ==
  [present |-> TRUE, enabled |-> enabled, processedMessageIds |-> ids,
   lastHeartbeat |-> 0]

(* ------------------------------ chat-store ----------------------------- *)
\* Array.prototype.slice(-n): the last n elements
sliceLast(s, n) == IF Len(s) > n THEN SubSeq(s, Len(s) - n + 1, Len(s)) ELSE s

\* a ledger that keeps its first entries when it is full
addProcessedMessageId_KeepOldest(file, id, saveOk) ==
  IF ~file.present \/ ~saveOk THEN file
  ELSE LET pushed == Append(file.processedMessageIds, id) IN
       [file EXCEPT !.processedMessageIds =
          IF Len(pushed) > LedgerCapacity THEN SubSeq(pushed, 1, LedgerCapacity)
          ELSE pushed]

\* addProcessedMessageId: the file after the call; saveOk: the write succeeds
addProcessedMessageId(file, id, saveOk) ==
  IF ~file.present \/ ~saveOk THEN file
  ELSE LET pushed == Append(file.processedMessageIds, id) IN
       [file EXCEPT !.processedMessageIds =
          IF Len(pushed) > LedgerCapacity THEN sliceLast(pushed, LedgerCapacity)
          ELSE pushed]

isMessageProcessed(file, id) ==
  /\ file.present
  /\ \E i \in DOMAIN file.processedMessageIds : file.processedMessageIds[i] = id

\* updateLastHeartbeat
updateLastHeartbeat(file, timestamp, saveOk) ==
  IF ~file.present \/ ~saveOk THEN file
  ELSE [file EXCEPT !.lastHeartbeat = timestamp]

\* updateChatEnabled
updateChatEnabled(file, enabled) == [file EXCEPT !.enabled = enabled]

(* ----------------------------- MessagePoller --------------------------- *)
\* a filter that does not look at the sender
newMessages_AnySender(file, messages) ==
  SelectSeq(messages, LAMBDA msg : ~isMessageProcessed(file, msg.id))

\* the filter of processConversation, taken before any message is emitted
newMessages(file, messages) ==
  SelectSeq(messages, LAMBDA msg : ~isMessageProcessed(file, msg.id) /\ msg.fromPeer)

\* the loop of processConversation over the filtered messages: emit
\* 'new-message', then record the ID; a failed write throws out of the loop
RECURSIVE emitNewMessages(_, _, _)
emitNewMessages(st, msgs, saveOk) ==
  IF msgs = <<>> THEN st
  ELSE LET msg == Head(msgs)
           emitted == [st EXCEPT !.newMessage[msg.id] = Sat(@)]
           recorded == [emitted EXCEPT
                          !.file = addProcessedMessageId(@, msg.id, saveOk)]
       IN IF st.file.present /\ ~saveOk THEN emitted
          ELSE emitNewMessages(recorded, Tail(msgs), saveOk)

\* processConversation after its await; ok: getMessages resolved
processConversation(st, ok, messages, saveOk) ==
  IF ~ok THEN st
  ELSE emitNewMessages(st, newMessages(st.file, messages), saveOk)

\* MessagePoller.start after its first pollMessages
pollerStarted(st) ==
  [st EXCEPT !.mpTimer = TRUE, !.mpIntervals = @ + 1, !.mpIsRunning = TRUE,
             !.mpStopped = FALSE]

\* MessagePoller.stop
stopPoller(st) ==
  IF ~st.mpIsRunning THEN st
  ELSE [st EXCEPT !.mpTimer = FALSE,
                  !.mpIntervals = IF st.mpTimer THEN @ - 1 ELSE @,
                  !.mpIsRunning = FALSE, !.mpStopped = TRUE]

(* ---------------------------- HeartbeatService ------------------------- *)
\* sendHeartbeat throws: the request failed or the credentials write failed
sendHeartbeatThrows(st, ok, saveOk) == ~ok \/ (st.file.present /\ ~saveOk)

\* sendHeartbeat after its await
heartbeatSent(st, ok, unread, saveOk) ==
  IF ~ok THEN st
  ELSE IF st.file.present /\ ~saveOk THEN st
  ELSE [st EXCEPT !.file = updateLastHeartbeat(@, now, saveOk),
                  !.heartbeatSent = Sat(@),
                  !.unreadMessages = IF unread THEN Sat(@) ELSE @]

\* HeartbeatService.start after its first sendHeartbeat
heartbeatStarted(st) ==
  [st EXCEPT !.hbsTimer = TRUE, !.hbsIntervals = @ + 1, !.hbsIsRunning = TRUE,
             !.hbsStopped = FALSE]

\* a stop that does not look at isRunning
stopHeartbeat_Unguarded(st, at) ==
  [st EXCEPT !.hbsTimer = FALSE,
             !.hbsIntervals = IF st.hbsTimer THEN @ - 1 ELSE @,
             !.hbsStopped = TRUE,
             !.pending[at] = @ + 1, !.requestSent = TRUE]

\* HeartbeatService.stop up to its await of the offline heartbeat, which
\* await counts at `at`
stopHeartbeat(st, at) ==
  IF ~st.hbsIsRunning THEN st
  ELSE [st EXCEPT !.hbsTimer = FALSE,
                  !.hbsIntervals = IF st.hbsTimer THEN @ - 1 ELSE @,
                  !.hbsStopped = TRUE,
                  !.pending[at] = @ + 1, !.requestSent = TRUE]

(* -------------------------- AgentHubChatManager ------------------------ *)
\* cleanup: messagePoller.stop(), then heartbeatService.stop()
cleanup(st, at) == stopHeartbeat(stopPoller(st), at)

\* one call leaves the await `at`
resume(st, at) == [st EXCEPT !.pending[at] = @ - 1]

\* one call reaches the await `at`, sending its request
awaitAt(st, at) == [st EXCEPT !.pending[at] = @ + 1, !.requestSent = TRUE]

\* AgentHubChatManager.start up to its first await
managerStart(st) == awaitAt(st, "start.online")

\* messagePoller.start() inside AgentHubChatManager.start
startPoller(st) ==
  IF st.mpIsRunning THEN cleanup(st, "start.offline")
  ELSE awaitAt(st, "start.conversations")

\* heartbeatService.start() inside AgentHubChatManager.start
startHeartbeatService(st) ==
  IF st.hbsIsRunning THEN cleanup(st, "start.offline")
  ELSE awaitAt(st, "start.heartbeat")

\* AgentHubChatManager.start after messagePoller.start resolved
managerStarted(st) == [pollerStarted(st) EXCEPT !.isRunning = TRUE]

(* ----------------------- the pinai-chat service ------------------------ *)
\* a start that does not look at the enabled flag
shouldStartChat_IgnoringEnabled(file) == file.present

\* the service's start creates and starts the chat manager
shouldStartChat(file) == file.present /\ file.enabled

\* the calls and timers the model follows at one time
WithinBounds(st) ==
  /\ SumOver(st.pending, StartAwaits) <= MaxStarts
  /\ \A at \in StopAwaits \cup TickAwaits : st.pending[at] <= MaxInflight
  /\ st.hbsIntervals <= MaxCount
  /\ st.mpIntervals <= MaxCount

InitialCredentials ==
  {NoCredentials, Credentials(TRUE, <<>>), Credentials(FALSE, <<>>)}

\* the gateway process before the pinai-chat service starts, with the
\* credentials file it finds
NewChat(file) ==
  [file |-> file, chatManager |-> FALSE, isRunning |-> FALSE,
   hbsIsRunning |-> FALSE, hbsTimer |-> FALSE, hbsIntervals |-> 0,
   mpIsRunning |-> FALSE, mpTimer |-> FALSE, mpIntervals |-> 0,
   pending |-> [at \in Awaits |-> 0],
   newMessage |-> [id \in MsgIds |-> 0], heartbeatSent |-> 0,
   unreadMessages |-> 0, mpStopped |-> FALSE, hbsStopped |-> FALSE,
   enabledAtStart |-> "notStarted", requestSent |-> FALSE,
   startRespond |-> "none", ledgerInserts |-> 0, thrown |-> "none",
   crashed |-> FALSE, firstPollNotFromPeer |-> FALSE]

ChatInit == \E file \in InitialCredentials : chat = NewChat(file)

\* the pinai-chat service's start, up to the first await of chatManager.start
ChatServiceStart ==
  /\ ~chat.crashed
  /\ chat.enabledAtStart = "notStarted"
  /\ LET st == [chat EXCEPT !.enabledAtStart =
                  IF ~chat.file.present THEN "absent"
                  ELSE IF chat.file.enabled THEN "enabled" ELSE "disabled"]
     IN chat' = IF shouldStartChat(chat.file)
                THEN managerStart([st EXCEPT !.chatManager = TRUE])
                ELSE st
  /\ UNCHANGED besideChat

\* the gateway method pinai-chat.start, up to the first await
GatewayChatStart ==
  /\ ~chat.crashed
  /\ chat' = IF ~chat.chatManager
             THEN [chat EXCEPT !.startRespond = "NOT_INITIALIZED"]
             ELSE IF chat.isRunning
             THEN [chat EXCEPT !.startRespond = "START_ERROR"]
             ELSE [managerStart(chat) EXCEPT !.startRespond = "started"]
  /\ WithinBounds(chat')
  /\ UNCHANGED besideChat

\* the error AgentHubChatManager.stop() throws
ChatNotRunning == "Chat service is not running"

\* chatManager.stop() up to its throw, or to its await, or to its end when
\* the heartbeat service is not running; at: the await of this caller
managerStop(st, at) ==
  IF ~st.isRunning THEN [st EXCEPT !.thrown = ChatNotRunning]
  ELSE IF st.hbsIsRunning THEN [cleanup(st, at) EXCEPT !.thrown = "none"]
  ELSE [cleanup(st, at) EXCEPT !.isRunning = FALSE, !.thrown = "none"]

\* the gateway method pinai-chat.stop
GatewayChatStop ==
  /\ ~chat.crashed
  /\ chat.chatManager
  /\ chat' = managerStop(chat, "gatewayStop.offline")
  /\ WithinBounds(chat')
  /\ UNCHANGED besideChat

\* the pinai-chat service's stop; chatManager.stop() throwing leaves the
\* manager in place
ChatServiceStop ==
  /\ ~chat.crashed
  /\ chat.chatManager
  /\ chat' = IF chat.isRunning /\ ~chat.hbsIsRunning
             THEN [managerStop(chat, "serviceStop.offline") EXCEPT !.chatManager = FALSE]
             ELSE managerStop(chat, "serviceStop.offline")
  /\ WithinBounds(chat')
  /\ UNCHANGED besideChat

\* the offline heartbeat of a stop settles (its failure is caught)
OfflineResponse(at) ==
  /\ ~chat.crashed
  /\ chat.pending[at] > 0
  /\ LET st == [resume(chat, at) EXCEPT !.hbsIsRunning = FALSE] IN
     chat' = IF at \in {"start.offline", "stop.offline"} THEN st
             ELSE IF at = "gatewayStop.offline" THEN [st EXCEPT !.isRunning = FALSE]
             ELSE [st EXCEPT !.isRunning = FALSE, !.chatManager = FALSE]
  /\ UNCHANGED besideChat

\* AgentHubChatManager.start: the online heartbeat settles
StartOnlineResponse(ok) ==
  /\ ~chat.crashed
  /\ chat.pending["start.online"] > 0
  /\ LET st == resume(chat, "start.online") IN
     chat' = IF ok THEN startHeartbeatService(st) ELSE cleanup(st, "start.offline")
  /\ WithinBounds(chat')
  /\ UNCHANGED besideChat

\* HeartbeatService.start: its first sendHeartbeat settles
StartHeartbeatResponse(ok, unread, saveOk) ==
  /\ ~chat.crashed
  /\ chat.pending["start.heartbeat"] > 0
  /\ LET st == heartbeatSent(resume(chat, "start.heartbeat"), ok, unread, saveOk) IN
     chat' = IF sendHeartbeatThrows(chat, ok, saveOk)
             THEN cleanup(st, "start.offline")
             ELSE startPoller(heartbeatStarted(st))
  /\ WithinBounds(chat')
  /\ UNCHANGED besideChat

\* MessagePoller.start: getConversations settles; unread: the conversation
\* has unread_count > 0
StartConversationsResponse(ok, unread) ==
  /\ ~chat.crashed
  /\ chat.pending["start.conversations"] > 0
  /\ LET st == resume(chat, "start.conversations") IN
     chat' = IF ~ok THEN cleanup(st, "start.offline")
             ELSE IF unread THEN awaitAt(st, "start.messages")
             ELSE managerStarted(st)
  /\ WithinBounds(chat')
  /\ UNCHANGED besideChat

\* MessagePoller.start: getMessages settles
StartMessagesResponse(ok, messages, saveOk) ==
  /\ ~chat.crashed
  /\ chat.pending["start.messages"] > 0
  /\ chat' = managerStarted(
       processConversation(resume(chat, "start.messages"), ok, messages, saveOk))
  /\ WithinBounds(chat')
  /\ UNCHANGED besideChat

\* the interval callback's catch: emit("error") on the poller, forwarded by
\* the manager's emit("error"), for which the service registers no listener:
\* the emit throws inside the catch callback and the rejection is unhandled;
\* fatal: the host's unhandled-rejection mode ends the process
emitError(st, fatal) == [st EXCEPT !.crashed = fatal]

\* a tick of a HeartbeatService interval
ChatHeartbeatTick ==
  /\ ~chat.crashed
  /\ chat.hbsIntervals > 0
  /\ chat' = awaitAt(chat, "tick.heartbeat")
  /\ WithinBounds(chat')
  /\ UNCHANGED besideChat

\* the heartbeat of a tick settles
ChatHeartbeatResponse(ok, unread, saveOk) ==
  /\ ~chat.crashed
  /\ chat.pending["tick.heartbeat"] > 0
  /\ LET st == heartbeatSent(resume(chat, "tick.heartbeat"), ok, unread, saveOk) IN
     IF sendHeartbeatThrows(chat, ok, saveOk)
     THEN \E fatal \in BOOLEAN : chat' = emitError(st, fatal)
     ELSE chat' = st
  /\ UNCHANGED besideChat

\* a tick of a MessagePoller interval
MessagePollTick ==
  /\ ~chat.crashed
  /\ chat.mpIntervals > 0
  /\ chat' = awaitAt(chat, "tick.conversations")
  /\ WithinBounds(chat')
  /\ UNCHANGED besideChat

\* pollMessages of a tick: getConversations settles
PollConversationsResponse(ok, unread) ==
  /\ ~chat.crashed
  /\ chat.pending["tick.conversations"] > 0
  /\ LET st == resume(chat, "tick.conversations") IN
     IF ~ok THEN \E fatal \in BOOLEAN : chat' = emitError(st, fatal)
     ELSE chat' = IF unread THEN awaitAt(st, "tick.messages") ELSE st
  /\ WithinBounds(chat')
  /\ UNCHANGED besideChat

\* processConversation of a tick: getMessages settles
PollMessagesResponse(ok, messages, saveOk) ==
  /\ ~chat.crashed
  /\ chat.pending["tick.messages"] > 0
  /\ chat' = processConversation(resume(chat, "tick.messages"), ok, messages, saveOk)
  /\ UNCHANGED besideChat

\* the CLI's `pinai chat start` / `pinai chat stop` in another process
CliChatEnabled(enabled) ==
  /\ chat.file.present
  /\ chat.file.enabled # enabled
  /\ chat' = [chat EXCEPT !.file = updateChatEnabled(@, enabled)]
  /\ UNCHANGED besideChat

ChatNext ==
  \/ ChatServiceStart
  \/ GatewayChatStart
  \/ GatewayChatStop
  \/ ChatServiceStop
  \/ \E at \in {"start.offline", "gatewayStop.offline", "serviceStop.offline"} :
       OfflineResponse(at)
  \/ \E ok \in BOOLEAN : StartOnlineResponse(ok)
  \/ \E ok \in BOOLEAN : \E unread \in BOOLEAN : \E saveOk \in BOOLEAN :
       StartHeartbeatResponse(ok, unread, saveOk)
  \/ \E ok \in BOOLEAN : \E unread \in BOOLEAN : StartConversationsResponse(ok, unread)
  \/ \E ok \in BOOLEAN : \E messages \in BoundedSeq(Messages, MaxBatch) :
       \E saveOk \in BOOLEAN : StartMessagesResponse(ok, messages, saveOk)
  \/ ChatHeartbeatTick
  \/ \E ok \in BOOLEAN : \E unread \in BOOLEAN : \E saveOk \in BOOLEAN :
       ChatHeartbeatResponse(ok, unread, saveOk)
  \/ MessagePollTick
  \/ \E ok \in BOOLEAN : \E unread \in BOOLEAN : PollConversationsResponse(ok, unread)
  \/ \E ok \in BOOLEAN : \E messages \in BoundedSeq(Messages, MaxBatch) :
       \E saveOk \in BOOLEAN : PollMessagesResponse(ok, messages, saveOk)
  \/ \E enabled \in BOOLEAN : CliChatEnabled(enabled)
  \/ AdvanceClock

(* ------------------- the two chat pollers on their own ----------------- *)
\* the errors start() throws
HeartbeatAlreadyRunning == "Heartbeat service is already running"
PollerAlreadyRunning == "Message poller is already running"

\* HeartbeatService.start() up to its await, or to its throw
heartbeatServiceStart(st) ==
  IF st.hbsIsRunning
  THEN [st EXCEPT !.thrown = HeartbeatAlreadyRunning]
  ELSE [awaitAt(st, "start.heartbeat") EXCEPT !.thrown = "none"]

\* HeartbeatService.start() while no other start() of the two pollers awaits
HeartbeatServiceStart ==
  /\ chat.file.present
  /\ chat' = heartbeatServiceStart(chat)
  /\ WithinBounds(chat')
  /\ UNCHANGED besideChat

\* the rest of HeartbeatService.start(): its first sendHeartbeat settles
HeartbeatServiceStarted(ok, unread, saveOk) ==
  /\ chat.pending["start.heartbeat"] > 0
  /\ LET st == heartbeatSent(resume(chat, "start.heartbeat"), ok, unread, saveOk) IN
     chat' = IF sendHeartbeatThrows(chat, ok, saveOk)
             THEN [st EXCEPT !.thrown = "sendHeartbeat"]
             ELSE heartbeatStarted(st)
  /\ WithinBounds(chat')
  /\ UNCHANGED besideChat

\* HeartbeatService.stop() up to its await, or to its return
HeartbeatServiceStop ==
  /\ chat.file.present
  /\ chat' = stopHeartbeat(chat, "stop.offline")
  /\ WithinBounds(chat')
  /\ UNCHANGED besideChat

\* MessagePoller.start() up to its await, or to its throw
messagePollerStart(st) ==
  IF st.mpIsRunning
  THEN [st EXCEPT !.thrown = PollerAlreadyRunning]
  ELSE [awaitAt(st, "start.conversations") EXCEPT !.thrown = "none"]

\* MessagePoller.start() while no other start() of the two pollers awaits
MessagePollerStart ==
  /\ chat.file.present
  /\ chat' = messagePollerStart(chat)
  /\ WithinBounds(chat')
  /\ UNCHANGED besideChat

\* MessagePoller.start(): getConversations of its first pollMessages settles
MessagePollerConversations(ok, unread) ==
  /\ chat.pending["start.conversations"] > 0
  /\ LET st == resume(chat, "start.conversations") IN
     chat' = IF ~ok THEN [st EXCEPT !.thrown = "pollMessages"]
             ELSE IF unread THEN awaitAt(st, "start.messages")
             ELSE pollerStarted(st)
  /\ WithinBounds(chat')
  /\ UNCHANGED besideChat

\* MessagePoller.start(): getMessages of its first pollMessages settles;
\* firstPollNotFromPeer is history: a response of a first poll held a message
\* whose sender is not the peer
MessagePollerMessages(ok, messages, saveOk) ==
  /\ chat.pending["start.messages"] > 0
  /\ chat' = [pollerStarted(
                processConversation(resume(chat, "start.messages"), ok,
                                    messages, saveOk))
              EXCEPT !.firstPollNotFromPeer =
                @ \/ (ok /\ \E i \in DOMAIN messages : ~messages[i].fromPeer)]
  /\ WithinBounds(chat')
  /\ UNCHANGED besideChat

\* MessagePoller.stop()
MessagePollerStop ==
  /\ chat.file.present
  /\ chat' = stopPoller(chat)
  /\ UNCHANGED besideChat

ChatPollersNext ==
  \/ HeartbeatServiceStart
  \/ \E ok \in BOOLEAN : \E unread \in BOOLEAN : \E saveOk \in BOOLEAN :
       HeartbeatServiceStarted(ok, unread, saveOk)
  \/ HeartbeatServiceStop
  \/ OfflineResponse("stop.offline")
  \/ MessagePollerStart
  \/ \E ok \in BOOLEAN : \E unread \in BOOLEAN : MessagePollerConversations(ok, unread)
  \/ \E ok \in BOOLEAN : \E messages \in BoundedSeq(Messages, MaxBatch) :
       \E saveOk \in BOOLEAN : MessagePollerMessages(ok, messages, saveOk)
  \/ MessagePollerStop

(* ------------------------- overlapping start() ------------------------- *)
\* HeartbeatService.start() called while an earlier start() of the service
\* awaits its first sendHeartbeat
HeartbeatServiceStartOverlapping ==
  /\ chat.file.present
  /\ chat.pending["start.heartbeat"] \in 1..(MaxOverlap - 1)
  /\ chat' = heartbeatServiceStart(chat)
  /\ UNCHANGED besideChat

\* MessagePoller.start() called while an earlier start() of the poller
\* awaits getConversations
MessagePollerStartOverlapping ==
  /\ chat.file.present
  /\ chat.pending["start.conversations"] \in 1..(MaxOverlap - 1)
  /\ chat' = messagePollerStart(chat)
  /\ UNCHANGED besideChat

OverlappingStartsNext ==
  \/ ChatPollersNext
  \/ HeartbeatServiceStartOverlapping
  \/ MessagePollerStartOverlapping

(* ============================ ErrorHandler ============================= *)
\* an error message is the set of the substrings classifyError looks for
\* that it contains
ErrorMessages ==
  {{"econnrefused"}, {"enotfound"}, {"timeout"}, {"401"}, {"token", "expired"},
   {"400"}, {"network", "unauthorized"}, {}}

ErrorCode(code, category, severity) ==
  [code |-> code, category |-> category, severity |-> severity]

\* classifyError: the first test that matches
classifyError(message) ==
  IF "enotfound" \in message \/ "dns" \in message
    THEN ErrorCode("E003", "network", "high")
  ELSE IF "econnrefused" \in message \/ "network" \in message
    THEN ErrorCode("E001", "network", "high")
  ELSE IF "timeout" \in message \/ "etimedout" \in message
    THEN ErrorCode("E002", "timeout", "medium")
  ELSE IF "503" \in message \/ "service unavailable" \in message
    THEN ErrorCode("E101", "server", "high")
  ELSE IF "500" \in message \/ "internal server" \in message
    THEN ErrorCode("E102", "server", "medium")
  ELSE IF "429" \in message \/ "rate limit" \in message
    THEN ErrorCode("E103", "server", "low")
  ELSE IF "401" \in message \/ "unauthorized" \in message
    THEN ErrorCode("E203", "authentication", "critical")
  ELSE IF "403" \in message \/ "forbidden" \in message
    THEN ErrorCode("E201", "authentication", "critical")
  ELSE IF "token" \in message /\ "expired" \in message
    THEN ErrorCode("E202", "authentication", "high")
  ELSE IF "400" \in message \/ "bad request" \in message
    THEN ErrorCode("E301", "validation", "low")
  ELSE IF "invalid" \in message /\ "response" \in message
    THEN ErrorCode("E302", "validation", "medium")
  ELSE ErrorCode("E999", "unknown", "medium")

\* an isRetryable that retries whatever is not critical
isRetryable_AuthenticationRetried(category, severity) ==
  severity # "critical"

\* isRetryable
isRetryable(category, severity) ==
  IF severity = "critical" \/ category = "authentication" THEN FALSE
  ELSE category \in {"network", "server", "timeout"}

\* lastError = null
NoError == [code |-> "", category |-> "", severity |-> "", retryable |-> FALSE]

\* the ConnectorError createError builds
ConnectorError(message) ==
  LET c == classifyError(message) IN
  [code |-> c.code, category |-> c.category, severity |-> c.severity,
   retryable |-> isRetryable(c.category, c.severity)]

\* DEFAULT_RECOVERY_STRATEGY; jitterFactor in hundredths
DEFAULT_RECOVERY_STRATEGY ==
  [maxRetries |-> 5, baseDelayMs |-> 1000, maxDelayMs |-> 60000,
   backoffMultiplier |-> 2, jitterFactor |-> 30]

\* the strategies createErrorHandler(strategy) is given
RecoveryStrategies ==
  {DEFAULT_RECOVERY_STRATEGY,
   [DEFAULT_RECOVERY_STRATEGY EXCEPT !.maxDelayMs = 2000]}

\* Math.random(), in hundredths
RandomValues == {0, 50, 99}

RECURSIVE Pow(_, _)
Pow(b, n) == IF n = 0 THEN 1 ELSE b * Pow(b, n - 1)

Min(a, b) == IF a < b THEN a ELSE b
Max(a, b) == IF a > b THEN a ELSE b

\* calculateRetryDelay(attempt) with Math.random() = random / 100: the capped
\* backoff plus its jitter, in ten-thousandths of a millisecond, then
\* Math.round
calculateRetryDelay(strategy, attempt, random) ==
  LET capped == Min(strategy.baseDelayMs * Pow(strategy.backoffMultiplier, attempt),
                    strategy.maxDelayMs)
      jittered == capped * 10000 + capped * strategy.jitterFactor * (2 * random - 100)
  IN (2 * Max(0, jittered) + 10000) \div 20000

\* recordError
recordError(eh, error) ==
  [eh EXCEPT !.lastError = error,
             !.consecutiveFailures = @ + 1,
             !.circuitBreakerTriggered =
                IF eh.consecutiveFailures + 1 >= CircuitBreakerThreshold
                THEN Sat(@) ELSE @]

\* recordSuccess
recordSuccess(eh) ==
  [eh EXCEPT !.consecutiveFailures = 0, !.circuitBreakerTriggered = 0]

\* no withRetry call yet
NoRetry ==
  [pc |-> "idle", maxRetries |-> 0, attempt |-> 0, calls |-> 0, sleeps |-> 0,
   lastDelay |-> 0, delaysNonDecreasing |-> TRUE, delaysCapped |-> TRUE,
   categories |-> {}, thrown |-> NoError]

\* maxAttempts of an item cacheForSync makes
PendingMaxAttempts == 3

\* no pending-data.json
NoPendingFile == [exists |-> FALSE, items |-> <<>>]

\* this.pendingData = [] with no file on disk; cached and restarts count the
\* cacheForSync calls and the handlers constructed since, returned is what
\* the last incrementAttempt returned
NoPending ==
  [pendingData |-> <<>>, file |-> NoPendingFile, returned |-> "none",
   cached |-> 0, restarts |-> 0]

\* isOnline = true and no probe made; wasOffline is the local of the probe
\* in flight, events the 'network-lost' and 'network-restored' emitted
NoNetwork ==
  [isOnline |-> TRUE, pc |-> "idle", wasOffline |-> FALSE, probes |-> 0,
   events |-> <<>>, emitted |-> 0]

\* createErrorHandler(strategy)
ErrorHandlerInit ==
  \E strategy \in RecoveryStrategies :
    errorHandler = [recoveryStrategy |-> strategy, lastError |-> NoError,
                    consecutiveFailures |-> 0, circuitBreakerTriggered |-> 0,
                    retry |-> NoRetry, pending |-> NoPending,
                    network |-> NoNetwork]

\* createError(error) called by a user of the handler
CreateError(message) ==
  /\ errorHandler.consecutiveFailures < MaxFailures
  /\ errorHandler' = recordError(errorHandler, ConnectorError(message))
  /\ UNCHANGED besideErrorHandler

\* recordSuccess() called by a user of the handler
RecordSuccess ==
  /\ errorHandler' = recordSuccess(errorHandler)
  /\ UNCHANGED besideErrorHandler

\* withRetry(fn, context, customStrategy) up to its first await of fn();
\* custom: customStrategy.maxRetries, -1 when it is not given
WithRetryCall(custom) ==
  /\ errorHandler.retry.pc \in {"idle", "returned", "thrown"}
  /\ LET maxRetries == IF custom = -1 THEN errorHandler.recoveryStrategy.maxRetries
                       ELSE custom
     IN errorHandler' =
          [errorHandler EXCEPT !.retry =
             IF maxRetries = 0
             THEN [NoRetry EXCEPT !.pc = "thrown"]
             ELSE [NoRetry EXCEPT !.pc = "calling", !.maxRetries = maxRetries,
                                  !.calls = 1]]
  /\ UNCHANGED besideErrorHandler

\* fn() resolves
FnResolves ==
  /\ errorHandler.retry.pc = "calling"
  /\ errorHandler' = [recordSuccess(errorHandler) EXCEPT !.retry.pc = "returned"]
  /\ UNCHANGED besideErrorHandler

\* fn() rejects with message; random: Math.random() of calculateRetryDelay
FnRejects(message, random) ==
  /\ errorHandler.retry.pc = "calling"
  /\ errorHandler.consecutiveFailures < MaxFailures
  /\ LET error == ConnectorError(message)
         eh == recordError(errorHandler, error)
         retry == [errorHandler.retry EXCEPT !.categories = @ \cup {error.category}]
         delay == calculateRetryDelay(errorHandler.recoveryStrategy, retry.attempt, random)
     IN errorHandler' =
          IF ~error.retryable \/ retry.attempt >= retry.maxRetries - 1
          THEN [eh EXCEPT !.retry = [retry EXCEPT !.pc = "thrown", !.thrown = error]]
          ELSE [eh EXCEPT !.retry =
                  [retry EXCEPT
                     !.pc = "sleeping", !.sleeps = @ + 1, !.lastDelay = delay,
                     !.delaysNonDecreasing = @ /\ delay >= retry.lastDelay,
                     !.delaysCapped =
                        @ /\ delay <= errorHandler.recoveryStrategy.maxDelayMs]]
  /\ UNCHANGED besideErrorHandler

\* the sleep ends: the next attempt calls fn()
SleepDone ==
  /\ errorHandler.retry.pc = "sleeping"
  /\ errorHandler' = [errorHandler EXCEPT !.retry.pc = "calling",
                                          !.retry.attempt = @ + 1,
                                          !.retry.calls = @ + 1]
  /\ UNCHANGED besideErrorHandler

ErrorHandlerNext ==
  \/ \E message \in ErrorMessages : CreateError(message)
  \/ RecordSuccess
  \/ \E custom \in -1..MaxCustomRetries : WithRetryCall(custom)
  \/ FnResolves
  \/ \E message \in ErrorMessages : \E random \in RandomValues :
       FnRejects(message, random)
  \/ SleepDone

(* -------------------------- the pending data --------------------------- *)
PendingTypes == {"heartbeat", "work-context"}

\* the values of the index argument: JavaScript indices, some out of range
PendingIndices == -1..MaxCached

\* pendingData.splice(index, 1)
splice(pendingData, index) ==
  SubSeq(pendingData, 1, index) \o SubSeq(pendingData, index + 2, Len(pendingData))

\* savePendingData(): the file after it; a failed write is logged and the
\* file is as it was
savePendingData(file, pendingData, saveOk) ==
  IF saveOk THEN [exists |-> TRUE, items |-> pendingData] ELSE file

\* loadPendingData() in the constructor of a new handler
loadPendingData(file) == IF file.exists THEN file.items ELSE <<>>

\* cacheForSync(type, payload); the payload is the number of the call
CacheForSync(type, saveOk) ==
  /\ errorHandler.pending.cached < MaxCached
  /\ LET pending == errorHandler.pending
         pendingItem == [type |-> type, payload |-> pending.cached + 1,
                         attempts |-> 0, maxAttempts |-> PendingMaxAttempts]
         pendingData == Append(pending.pendingData, pendingItem)
     IN errorHandler' =
          [errorHandler EXCEPT !.pending =
             [pending EXCEPT !.pendingData = pendingData,
                             !.file = savePendingData(pending.file, pendingData, saveOk),
                             !.cached = @ + 1]]
  /\ UNCHANGED besideErrorHandler

\* markSynced(index)
MarkSynced(index, saveOk) ==
  /\ LET pending == errorHandler.pending IN
     errorHandler' =
       IF index >= 0 /\ index < Len(pending.pendingData)
       THEN [errorHandler EXCEPT !.pending =
               [pending EXCEPT
                  !.pendingData = splice(pending.pendingData, index),
                  !.file = savePendingData(pending.file,
                                           splice(pending.pendingData, index), saveOk)]]
       ELSE errorHandler
  /\ UNCHANGED besideErrorHandler

\* incrementAttempt(index)
IncrementAttempt(index, saveOk) ==
  /\ LET pending == errorHandler.pending IN
     errorHandler' =
       IF index >= 0 /\ index < Len(pending.pendingData)
       THEN LET incremented ==
                  [pending.pendingData EXCEPT ![index + 1].attempts = @ + 1]
            IN IF incremented[index + 1].attempts >= incremented[index + 1].maxAttempts
               THEN [errorHandler EXCEPT !.pending =
                       [pending EXCEPT
                          !.pendingData = splice(incremented, index),
                          !.file = savePendingData(pending.file,
                                                   splice(incremented, index), saveOk),
                          !.returned = "false"]]
               ELSE [errorHandler EXCEPT !.pending =
                       [pending EXCEPT
                          !.pendingData = incremented,
                          !.file = savePendingData(pending.file, incremented, saveOk),
                          !.returned = "true"]]
       ELSE [errorHandler EXCEPT !.pending.returned = "false"]
  /\ UNCHANGED besideErrorHandler

\* clearPendingData(); unlinkOk: the unlink succeeds, else it is logged
ClearPendingData(unlinkOk) ==
  /\ errorHandler' =
       [errorHandler EXCEPT
          !.pending.pendingData = <<>>,
          !.pending.file = IF unlinkOk THEN NoPendingFile ELSE @]
  /\ UNCHANGED besideErrorHandler

\* the process ends and a later one constructs its ErrorHandler
NewErrorHandler ==
  /\ errorHandler.pending.restarts < MaxRestarts
  /\ errorHandler' =
       [errorHandler EXCEPT
          !.pending.pendingData = loadPendingData(errorHandler.pending.file),
          !.pending.returned = "none",
          !.pending.restarts = @ + 1]
  /\ UNCHANGED besideErrorHandler

PendingDataNext ==
  \/ \E type \in PendingTypes : \E saveOk \in BOOLEAN : CacheForSync(type, saveOk)
  \/ \E index \in PendingIndices : \E saveOk \in BOOLEAN : MarkSynced(index, saveOk)
  \/ \E index \in PendingIndices : \E saveOk \in BOOLEAN :
       IncrementAttempt(index, saveOk)
  \/ \E unlinkOk \in BOOLEAN : ClearPendingData(unlinkOk)
  \/ NewErrorHandler

(* ------------------------ the connectivity probe ----------------------- *)
\* how the HEAD request of a probe ends: a 2xx status, 204, another status,
\* or a rejection (network error, the 5 s timeout)
ProbeAnswers == {"ok", "204", "status", "rejected"}

\* this.isOnline after the probe
probedOnline(answer) ==
  IF answer = "rejected" THEN FALSE ELSE answer = "ok" \/ answer = "204"

\* a probe that reports every offline answer as a loss
transitionEvents_EveryOffline(wasOffline, isOnline) ==
  (IF wasOffline /\ isOnline THEN <<"network-restored">> ELSE <<>>)
  \o (IF ~isOnline THEN <<"network-lost">> ELSE <<>>)

\* the events checkNetworkAndSync emits after the probe
transitionEvents(wasOffline, isOnline) ==
  (IF wasOffline /\ isOnline THEN <<"network-restored">> ELSE <<>>)
  \o (IF ~wasOffline /\ ~isOnline THEN <<"network-lost">> ELSE <<>>)

\* the 30 s interval fires: checkNetworkAndSync up to its await. The request
\* times out after 5 s, so the probe before has settled
NetworkCheckTick ==
  /\ errorHandler.network.pc = "idle"
  /\ errorHandler.network.probes < MaxProbes
  /\ errorHandler' =
       [errorHandler EXCEPT
          !.network.pc = "fetching",
          !.network.wasOffline = ~errorHandler.network.isOnline,
          !.network.probes = @ + 1]
  /\ UNCHANGED besideErrorHandler

\* the request settles: checkNetworkAndSync after its await
NetworkCheckSettles(answer) ==
  /\ errorHandler.network.pc = "fetching"
  /\ LET network == errorHandler.network
         emits == transitionEvents(network.wasOffline, probedOnline(answer))
     IN errorHandler' =
          [errorHandler EXCEPT
             !.network.pc = "idle",
             !.network.isOnline = probedOnline(answer),
             !.network.events = @ \o emits,
             !.network.emitted = Len(emits)]
  /\ UNCHANGED besideErrorHandler

NetworkNext ==
  \/ NetworkCheckTick
  \/ \E answer \in ProbeAnswers : NetworkCheckSettles(answer)

(* ==================== handling of commands and messages ================ *)
\* no command and no message handled yet
NoCommand == [pc |-> "idle", failed |-> FALSE, status |-> "none", reported |-> "none"]
NoMessage == [pc |-> "idle", failed |-> FALSE, reported |-> "none", id |-> ""]

\* the commands and the chat messages the listeners are given; a message
\* comes from one peer
PromptCommandIds == {"k1", "k2"}
ChatMessageIds == {"m1", "m2", "m3"}
PeerOf(messageId) == IF messageId = "m3" THEN "p2" ELSE "p1"

\* a session key that is the same for every peer
chatSessionId_Fixed(peerId) == "pinai-chat"

\* sessionId of the 'message-received' listener
chatSessionId(peerId) == "pinai-chat-" \o peerId

\* sessionId of the 'ai-prompt' listener
commandSessionId(commandId) == "pinai-command-" \o commandId

\* history: one call of runEmbeddedPiAgent
Run(channel, item, sessionId) ==
  [channel |-> channel, item |-> item, sessionId |-> sessionId]

\* runs: the runEmbeddedPiAgent calls made; ledger: processedMessageIds of
\* the credentials file
ProcessingIdle ==
  processing = [command |-> NoCommand, message |-> NoMessage, runs |-> {},
                ledger |-> <<>>]

\* reportCommandResult(commandId, status, ...) up to its await of the POST,
\* or to its return when this.registration is null
reportCommandResult(command, reg, resultStatus) ==
  IF reg = NullReg THEN [command EXCEPT !.pc = "done"]
  ELSE [command EXCEPT !.pc = "reporting", !.status = resultStatus]

\* executeCommand(command) of a polled command: 'ai-prompt' to the service's
\* listener, or a failed result for an unknown type
CommandReceived(type) ==
  /\ registration # NullReg
  /\ processing.command.pc \in {"idle", "done"}
  /\ \E commandId \in PromptCommandIds :
       processing' =
         IF type = "ai_prompt"
         THEN [processing EXCEPT
                 !.command = [NoCommand EXCEPT !.pc = "running"],
                 !.runs = @ \cup {Run("command", commandId,
                                      commandSessionId(commandId))}]
         ELSE [processing EXCEPT !.command =
                 reportCommandResult([NoCommand EXCEPT !.failed = TRUE],
                                     registration, "failed")]
  /\ UNCHANGED besideProcessing

\* the 'ai-prompt' listener after runEmbeddedPiAgent settled; ok: it resolved
AiPromptSettles(ok) ==
  /\ processing.command.pc = "running"
  /\ processing' = [processing EXCEPT !.command =
       reportCommandResult([@ EXCEPT !.failed = ~ok], registration,
                           IF ok THEN "completed" ELSE "failed")]
  /\ UNCHANGED besideProcessing

\* the rest of reportCommandResult; ok: the POST resolved
ReportSettles(ok) ==
  /\ processing.command.pc = "reporting"
  /\ processing' = [processing EXCEPT
       !.command.pc = "done",
       !.command.reported = IF ok THEN processing.command.status ELSE "none"]
  /\ UNCHANGED besideProcessing

\* processConversation emits 'new-message' for a message that passed its
\* filter: the service's listener runs up to its first await and starts the AI
\* run, then addProcessedMessageId records the ID; saveOk: the write succeeds
MessageReceived ==
  /\ processing.message.pc \in {"idle", "done"}
  /\ \E messageId \in ChatMessageIds : \E saveOk \in BOOLEAN :
       /\ ~isMessageProcessed(Credentials(TRUE, processing.ledger), messageId)
       /\ processing' = [processing EXCEPT
            !.message = [NoMessage EXCEPT !.pc = "running", !.id = messageId],
            !.runs = @ \cup {Run("chat", messageId,
                                 chatSessionId(PeerOf(messageId)))},
            !.ledger = addProcessedMessageId(Credentials(TRUE, @), messageId,
                                             saveOk).processedMessageIds]
  /\ UNCHANGED besideProcessing

\* the listener after runEmbeddedPiAgent settled: it threw, or gave no text,
\* or gave a reply, which sendMessage then posts
MessageAiSettles(outcome) ==
  /\ processing.message.pc = "running"
  /\ processing' = [processing EXCEPT !.message =
       IF outcome = "throws" THEN [@ EXCEPT !.pc = "done", !.failed = TRUE]
       ELSE IF outcome = "empty" THEN [@ EXCEPT !.pc = "done"]
       ELSE [@ EXCEPT !.pc = "sending"]]
  /\ UNCHANGED besideProcessing

\* sendMessage settled; its rejection is caught and logged
SendMessageSettles(ok) ==
  /\ processing.message.pc = "sending"
  /\ processing' = [processing EXCEPT
       !.message.pc = "done",
       !.message.failed = ~ok,
       !.message.reported = IF ok THEN "reply" ELSE "none"]
  /\ UNCHANGED besideProcessing

ProcessingNext ==
  \/ SetWorkContextDependencies
  \/ \E o \in DisconnectOptions : DisconnectCall(o)
  \/ \E remoteOk \in BOOLEAN : DisconnectFinish(remoteOk)
  \/ \E type \in CommandTypes : CommandReceived(type)
  \/ \E ok \in BOOLEAN : AiPromptSettles(ok)
  \/ \E ok \in BOOLEAN : ReportSettles(ok)
  \/ MessageReceived
  \/ \E outcome \in {"throws", "empty", "reply"} : MessageAiSettles(outcome)
  \/ \E ok \in BOOLEAN : SendMessageSettles(ok)

(* ====================== the credentials file, shared =================== *)
\* a process outside any read-modify-write of the file
NoUpdate == [pc |-> "idle", credentials |-> NoCredentials]

\* no credentials file, neither process inside a read-modify-write
StoreIdle == store = [file |-> NoCredentials, gateway |-> NoUpdate, cli |-> NoUpdate]

\* a registered agent's file, chat enabled or not
StoreInit ==
  \E enabled \in BOOLEAN :
    store = [file |-> Credentials(enabled, <<>>), gateway |-> NoUpdate,
             cli |-> NoUpdate]

\* the object a store function holds between its loadAgentHubCredentials()
\* and its saveAgentHubCredentials(credentials)
Loaded(credentials) == [pc |-> "loaded", credentials |-> credentials]

\* the gateway process: updateLastHeartbeat(timestamp) up to its save
GatewayLoadsForHeartbeat(timestamp) ==
  /\ store.gateway.pc = "idle"
  /\ store.file.present
  /\ store.file.lastHeartbeat # timestamp
  /\ store' = [store EXCEPT !.gateway =
                 Loaded(updateLastHeartbeat(store.file, timestamp, TRUE))]
  /\ UNCHANGED besideStore

\* the gateway process: addProcessedMessageId(messageId) up to its save
GatewayLoadsForLedger(id) ==
  /\ store.gateway.pc = "idle"
  /\ store.file.present
  /\ Len(store.file.processedMessageIds) < MaxInserts
  /\ store' = [store EXCEPT !.gateway =
                 Loaded(addProcessedMessageId(store.file, id, TRUE))]
  /\ UNCHANGED besideStore

\* the gateway process: saveAgentHubCredentials(credentials)
GatewaySaves ==
  /\ store.gateway.pc = "loaded"
  /\ store' = [store EXCEPT !.file = store.gateway.credentials,
                            !.gateway = NoUpdate]
  /\ UNCHANGED besideStore

\* the CLI process: `pinai chat start` / `pinai chat stop`, which return when
\* the flag is already as asked, else updateChatEnabled(enabled) up to its save
CliLoads(enabled) ==
  /\ store.cli.pc = "idle"
  /\ store.file.present
  /\ store.file.enabled # enabled
  /\ store' = [store EXCEPT !.cli = Loaded(updateChatEnabled(store.file, enabled))]
  /\ UNCHANGED besideStore

\* the CLI process: saveAgentHubCredentials(credentials)
CliSaves ==
  /\ store.cli.pc = "loaded"
  /\ store' = [store EXCEPT !.file = store.cli.credentials, !.cli = NoUpdate]
  /\ UNCHANGED besideStore

StoreNext ==
  \/ \E timestamp \in 1..MaxNow : GatewayLoadsForHeartbeat(timestamp)
  \/ \E id \in MsgIds : GatewayLoadsForLedger(id)
  \/ GatewaySaves
  \/ \E enabled \in BOOLEAN : CliLoads(enabled)
  \/ CliSaves

(* ====================== the registration file as text ================== *)
\* a string member that is undefined in the object, or missing from it
Undefined == "undefined"
\* a number member that is undefined or missing
UndefinedNumber == -1

\* the ConnectorRegistration objects saveRegistration is given: the strings
\* may be empty, device_name and lastWorkContextReportTime may be undefined
Registrations ==
  [connectorId : {"", "cA"}, deviceName : {Undefined, "", "Mac"},
   token : {"", "t1", "t2"}, lastWorkContextReportTime : {UndefinedNumber, 0, 5}]

StringKeys == <<"connectorId", "deviceName", "token">>
NumberKey == "lastWorkContextReportTime"

\* the digits JSON.stringify writes for a number
NumberText(n) == ToString(n)

\* JSON.stringify(object, null, 2): the members in order as name and JSON
\* text, a string quoted, a number in digits; undefined members are left out
JSONstringify(object) ==
  LET RECURSIVE strings(_)
      strings(k) ==
        IF k > Len(StringKeys) THEN <<>>
        ELSE (IF object[StringKeys[k]] = Undefined THEN <<>>
              ELSE <<<<StringKeys[k], "string", object[StringKeys[k]]>>>>)
             \o strings(k + 1)
  IN strings(1) \o
     (IF object[NumberKey] = UndefinedNumber THEN <<>>
      ELSE <<<<NumberKey, "number", NumberText(object[NumberKey])>>>>)

\* the member `key` of JSON.parse(data): what the text holds for it, a number
\* read back from its digits; undefined when the text has no such member
ParsedMember(data, key) ==
  IF \E i \in DOMAIN data : data[i][1] = key
  THEN LET i == CHOOSE j \in DOMAIN data : data[j][1] = key IN
       IF data[i][2] = "number"
       THEN CHOOSE n \in 0..9 : NumberText(n) = data[i][3]
       ELSE data[i][3]
  ELSE IF key = NumberKey THEN UndefinedNumber ELSE Undefined

\* JSON.parse(data)
JSONparse(data) ==
  [connectorId |-> ParsedMember(data, "connectorId"),
   deviceName |-> ParsedMember(data, "deviceName"),
   token |-> ParsedMember(data, "token"),
   lastWorkContextReportTime |-> ParsedMember(data, NumberKey)]

\* !value for a string member: undefined and the empty string are falsy
Falsy(value) == value = Undefined \/ value = ""

\* !value for a number member: undefined and 0 are falsy
FalsyNumber(value) == value = UndefinedNumber \/ value = 0

\* a validation that also wants a report time
requiredFieldsPresent_WithReportTime(reg) ==
  /\ ~Falsy(reg.connectorId)
  /\ ~Falsy(reg.token)
  /\ ~Falsy(reg.deviceName)
  /\ ~FalsyNumber(reg.lastWorkContextReportTime)

\* loadRegistration's validation of the required fields
requiredFieldsPresent(reg) ==
  /\ ~Falsy(reg.connectorId)
  /\ ~Falsy(reg.token)
  /\ ~Falsy(reg.deviceName)

\* no registration file
NoFile == <<<<"absent", "", "">>>>
\* loadRegistration() returning null, and no object saved
NullRegistration ==
  [connectorId |-> Undefined, deviceName |-> Undefined, token |-> Undefined,
   lastWorkContextReportTime |-> UndefinedNumber]

\* a registration file whose text JSON.parse throws on
Corrupt == <<<<"corrupt", "", "">>>>

\* loadRegistration() over the file; the catch block returns null
loadRegistrationFile(file) ==
  IF file = NoFile THEN NullRegistration
  ELSE IF file = Corrupt THEN NullRegistration
  ELSE LET reg == JSONparse(file) IN
       IF requiredFieldsPresent(reg) THEN reg ELSE NullRegistration

\* no file, nothing saved or loaded yet
RegistrationStoreIdle ==
  registrationStore = [file |-> NoFile, saved |-> NullRegistration,
                       loaded |-> NullRegistration, pc |-> "idle"]

\* saveRegistration(registration); saveOk: the write succeeds, else it throws
\* and the file is as it was
SaveRegistration(reg, saveOk) ==
  /\ registrationStore' =
       IF saveOk
       THEN [file |-> JSONstringify(reg), saved |-> reg,
             loaded |-> NullRegistration, pc |-> "saved"]
       ELSE [registrationStore EXCEPT !.pc = "saveThrew",
                                      !.loaded = NullRegistration]
  /\ UNCHANGED besideRegistrationStore

\* loadRegistration()
LoadRegistration ==
  /\ registrationStore' =
       [registrationStore EXCEPT
          !.loaded = loadRegistrationFile(registrationStore.file),
          !.pc = IF registrationStore.pc = "saved" THEN "savedLoaded" ELSE "loaded"]
  /\ UNCHANGED besideRegistrationStore

\* clearRegistration()
ClearRegistration ==
  /\ registrationStore' = [file |-> NoFile, saved |-> NullRegistration,
                           loaded |-> NullRegistration, pc |-> "cleared"]
  /\ UNCHANGED besideRegistrationStore

RegistrationStoreNext ==
  \/ \E reg \in Registrations : \E saveOk \in BOOLEAN :
       SaveRegistration(reg, saveOk)
  \/ LoadRegistration
  \/ ClearRegistration

\* the connector left as constructed with no registration file
ConnIdle == ConnInit /\ regFile = NullReg

\* the chat service left unstarted with no credentials file
ChatIdle == chat = NewChat(NoCredentials)

LifecycleNext ==
  \/ SetWorkContextDependencies
  \/ WatcherEvent
  \/ \E c \in ConnectorIds : ExternalWrite(c)
  \/ \E ok \in BOOLEAN : GenerateQRCode(ok)
  \/ \E i \in 1..MaxPairings : ExpiryTimer(i)
  \/ \E i \in 1..MaxPairings : PairingTickCap(i)
  \/ \E i \in 1..MaxPairings : PairingTickFetch(i)
  \/ \E i \in 1..MaxPairings : \E r \in StatusResponses : PairingResponse(i, r)
  \/ \E o \in DisconnectOptions : DisconnectCall(o)
  \/ \E remoteOk \in BOOLEAN : DisconnectFinish(remoteOk)

CommandNext ==
  \/ CommandPollTick
  \/ \E ok \in BOOLEAN : \E commands \in BoundedSeq(Commands, MaxCmdBatch) :
       CommandPollResponse(ok, commands)

WorkContextNext ==
  \/ HeartbeatTick
  \/ HeartbeatResponse
  \/ \E result \in {"throw", "empty", "ok"} : WorkContextCollected(result)
  \/ \E resolved \in BOOLEAN : \E accepted \in BOOLEAN : \E saveOk \in BOOLEAN :
       WorkContextPosted(resolved, accepted, saveOk)
  \/ AdvanceClock

\* the manager's lifecycle: pairing, adoption of a registration, disconnect
\* an ErrorHandler no one uses
ErrorHandlerIdle ==
  errorHandler = [recoveryStrategy |-> DEFAULT_RECOVERY_STRATEGY,
                  lastError |-> NoError, consecutiveFailures |-> 0,
                  circuitBreakerTriggered |-> 0, retry |-> NoRetry,
                  pending |-> NoPending, network |-> NoNetwork]

Init == ConnInit /\ ChatIdle /\ ErrorHandlerIdle /\ ProcessingIdle /\ StoreIdle /\ RegistrationStoreIdle

Spec == Init /\ [][LifecycleNext]_vars

\* a manager with its command poll
CommandSpecNext ==
  \/ SetWorkContextDependencies
  \/ WatcherEvent
  \/ \E c \in ConnectorIds : ExternalWrite(c)
  \/ \E o \in DisconnectOptions : DisconnectCall(o)
  \/ \E remoteOk \in BOOLEAN : DisconnectFinish(remoteOk)
  \/ CommandNext

SpecCommands == Init /\ [][CommandSpecNext]_vars

\* a manager with its heartbeat and the work-context report it triggers
WorkContextSpecNext ==
  \/ SetWorkContextDependencies
  \/ WatcherEvent
  \/ \E c \in ConnectorIds : ExternalWrite(c)
  \/ \E o \in DisconnectOptions : DisconnectCall(o)
  \/ \E remoteOk \in BOOLEAN : DisconnectFinish(remoteOk)
  \/ WorkContextNext

SpecWorkContext == Init /\ [][WorkContextSpecNext]_vars

\* the pinai-chat service
ChatSpecInit == ConnIdle /\ ChatInit /\ ErrorHandlerIdle /\ ProcessingIdle /\ StoreIdle /\ RegistrationStoreIdle

SpecChat == ChatSpecInit /\ [][ChatNext]_vars

(* ------------------ the processed-ID ledger at capacity ---------------- *)
\* message IDs are numbers here: a ledger of n earlier inserts holds 1..n
LedgerIds == {1, LedgerCapacity, LedgerCapacity + 1, LedgerCapacity + 2}

InitialLedgers ==
  {[i \in 1..n |-> i] : n \in (LedgerCapacity - 2)..LedgerCapacity}

LedgerInit ==
  /\ ConnIdle
  /\ ErrorHandlerIdle
  /\ ProcessingIdle
  /\ StoreIdle /\ RegistrationStoreIdle
  /\ \E ids \in InitialLedgers : chat = NewChat(Credentials(TRUE, ids))

\* one call of addProcessedMessageId(id)
AddProcessed(id, saveOk) ==
  /\ chat.ledgerInserts < MaxInserts
  /\ chat' = [chat EXCEPT !.file = addProcessedMessageId(@, id, saveOk),
                          !.ledgerInserts = @ + 1]
  /\ UNCHANGED besideChat

LedgerNext == \E id \in LedgerIds : \E saveOk \in BOOLEAN : AddProcessed(id, saveOk)

SpecLedger == LedgerInit /\ [][LedgerNext]_vars

(* ------------------------- the ErrorHandler alone ---------------------- *)
ErrorHandlerSpecInit ==
  ConnIdle /\ ChatIdle /\ ErrorHandlerInit /\ ProcessingIdle /\ StoreIdle /\ RegistrationStoreIdle

SpecErrorHandler == ErrorHandlerSpecInit /\ [][ErrorHandlerNext]_vars

(* --------------------------- the pending data -------------------------- *)
PendingDataInit ==
  ConnIdle /\ ChatIdle /\ ErrorHandlerIdle /\ ProcessingIdle /\ StoreIdle /\ RegistrationStoreIdle

SpecPendingData == PendingDataInit /\ [][PendingDataNext]_vars

(* ------------------------ the connectivity probe ----------------------- *)
NetworkInit ==
  ConnIdle /\ ChatIdle /\ ErrorHandlerIdle /\ ProcessingIdle /\ StoreIdle /\ RegistrationStoreIdle

SpecNetwork == NetworkInit /\ [][NetworkNext]_vars

(* ------------------- handling of commands and messages ---------------- *)
ProcessingInit == ConnInit /\ ChatIdle /\ ErrorHandlerIdle /\ ProcessingIdle /\ StoreIdle /\ RegistrationStoreIdle

SpecProcessing == ProcessingInit /\ [][ProcessingNext]_vars

(* ------------------------ the registration file ------------------------ *)
RegistrationStoreInit ==
  /\ ConnIdle /\ ChatIdle /\ ErrorHandlerIdle /\ ProcessingIdle /\ StoreIdle
  /\ RegistrationStoreIdle

SpecRegistrationStore == RegistrationStoreInit /\ [][RegistrationStoreNext]_vars

(* ------------------ a manager constructed on a document ---------------- *)
\* the registration files a manager may be constructed on: none, one that
\* does not parse, and what saveRegistration writes for any object
Documents == {NoFile, Corrupt} \cup {JSONstringify(reg) : reg \in Registrations}

\* the required member `key` of a document as the manager's registration
\* file holds it: absent when the text lacks it or holds the empty string
RequiredMember(file, key) ==
  IF file \in {NoFile, Corrupt} THEN Undefined ELSE ParsedMember(file, key)

\* the document as the manager's registration file: the connector id, the
\* token (0 when the token or the device name is missing) and the report time
AsRegFile(file) ==
  Reg(IF Falsy(RequiredMember(file, "connectorId")) THEN ""
      ELSE RequiredMember(file, "connectorId"),
      IF Falsy(RequiredMember(file, "token")) \/ Falsy(RequiredMember(file, "deviceName"))
      THEN 0 ELSE ExternalToken,
      IF file \in {NoFile, Corrupt} \/ FalsyNumber(ParsedMember(file, NumberKey))
      THEN 0 ELSE ParsedMember(file, NumberKey))

\* new DesktopConnectorManager(config) with the document on disk
ConstructionInit ==
  /\ \E file \in Documents :
       /\ registrationStore = [file |-> file, saved |-> NullRegistration,
                               loaded |-> loadRegistrationFile(file),
                               pc |-> "constructed"]
       /\ regFile = AsRegFile(file)
  /\ ConnConstructed
  /\ ChatIdle /\ ErrorHandlerIdle /\ ProcessingIdle /\ StoreIdle

ConstructionNext ==
  \/ SetWorkContextDependencies
  \/ WatcherEvent
  \/ \E c \in ConnectorIds : ExternalWrite(c)

SpecConstruction == ConstructionInit /\ [][ConstructionNext]_vars

(* ----------------------- the credentials file, shared ------------------ *)
StoreSpecInit ==
  /\ ConnIdle /\ ChatIdle /\ ErrorHandlerIdle /\ ProcessingIdle
  /\ StoreInit /\ RegistrationStoreIdle

SpecStore == StoreSpecInit /\ [][StoreNext]_vars

(* ------------------------------ the pollers ---------------------------- *)
\* the connector's two loops with their requests answered: started by the
\* dependency injection or a pairing, stopped by a disconnect
ConnectorLoopsNext ==
  \/ SetWorkContextDependencies
  \/ \E ok \in BOOLEAN : GenerateQRCode(ok)
  \/ \E i \in 1..MaxPairings : PairingTickFetch(i)
  \/ \E i \in 1..MaxPairings : \E r \in StatusResponses : PairingResponse(i, r)
  \/ \E o \in DisconnectOptions : DisconnectCall(o)
  \/ \E remoteOk \in BOOLEAN : DisconnectFinish(remoteOk)
  \/ HeartbeatResponse
  \/ \E ok \in BOOLEAN : CommandPollResponse(ok, <<>>)

\* a gateway with the connector and no chat credentials, or one with the two
\* chat pollers and no registration
PollersInit ==
  /\ ErrorHandlerIdle
  /\ ProcessingIdle
  /\ StoreIdle /\ RegistrationStoreIdle
  /\ \/ ConnInit /\ ChatIdle
     \/ ConnIdle /\ chat = NewChat(Credentials(TRUE, <<>>))

PollersNext ==
  \/ ~chat.file.present /\ ConnectorLoopsNext
  \/ chat.file.present /\ ChatPollersNext

SpecPollers == PollersInit /\ [][PollersNext]_vars

\* the two chat pollers with credentials, start() calls overlapping
OverlappingStartsInit ==
  /\ ErrorHandlerIdle
  /\ ProcessingIdle
  /\ StoreIdle /\ RegistrationStoreIdle
  /\ ConnIdle
  /\ chat = NewChat(Credentials(TRUE, <<>>))

SpecOverlappingStarts == OverlappingStartsInit /\ [][OverlappingStartsNext]_vars

(* ============================== claims ================================= *)

\* a step of a timer or of a request that was pending: a tick of an interval,
\* the expiry timer, or the rest of a handler after its await
TickStep ==
  \/ \E i \in 1..MaxPairings : ExpiryTimer(i)
  \/ \E i \in 1..MaxPairings : PairingTickCap(i)
  \/ \E i \in 1..MaxPairings : PairingTickFetch(i)
  \/ \E i \in 1..MaxPairings : \E r \in StatusResponses : PairingResponse(i, r)
  \/ HeartbeatTick
  \/ HeartbeatResponse
  \/ \E result \in {"throw", "empty", "ok"} : WorkContextCollected(result)
  \/ \E resolved \in BOOLEAN : \E accepted \in BOOLEAN : \E saveOk \in BOOLEAN :
       WorkContextPosted(resolved, accepted, saveOk)
  \/ CommandPollTick
  \/ \E ok \in BOOLEAN : \E commands \in BoundedSeq(Commands, MaxCmdBatch) :
       CommandPollResponse(ok, commands)

\* C3: once disconnect() has been called, and until the next generateQRCode
\* or adopted registration, no tick and no pending request changes the
\* registration, the status, the registration file or a timer, or emits
\* 'ai-prompt'.
C3_NoEffectAfterDisconnect ==
  [][(quiesced /\ TickStep) =>
       UNCHANGED <<registration, status, regFile, heartbeatTimer,
                   heartbeatIntervals, commandPollTimer, commandPollIntervals,
                   aiPromptEmits>>]_vars

\* C4: 'ai-prompt' is emitted at most once for a command_id, whatever the
\* command polls return.
C4_AiPromptAtMostOnce ==
  \A k \in CommandIds : aiPromptEmits[k] <= 1

\* how many entries of ids are id
RECURSIVE Occurrences(_, _)
Occurrences(ids, id) ==
  IF ids = <<>> THEN 0
  ELSE (IF Head(ids) = id THEN 1 ELSE 0) + Occurrences(Tail(ids), id)

\* C1: whatever the polls return, 'new-message' is emitted at most once for
\* a message ID and the ID is inserted into processedMessageIds at most once.
C1_NewMessageAtMostOnce ==
  \A id \in MsgIds :
    /\ chat.newMessage[id] <= 1
    /\ Occurrences(chat.file.processedMessageIds, id) <= 1

\* C2: while a poller is stopped, no step emits one of its events or writes
\* its part of the credentials file: after MessagePoller.stop() no
\* 'new-message' and no change of processedMessageIds, after
\* HeartbeatService.stop() no 'heartbeat-sent', no 'unread-messages' and no
\* change of lastHeartbeat.
C2_NoSideEffectAfterStop ==
  [][/\ (chat.mpStopped /\ chat'.mpStopped) =>
          /\ chat'.newMessage = chat.newMessage
          /\ chat'.file.processedMessageIds = chat.file.processedMessageIds
     /\ (chat.hbsStopped /\ chat'.hbsStopped) =>
          /\ chat'.heartbeatSent = chat.heartbeatSent
          /\ chat'.unreadMessages = chat.unreadMessages
          /\ chat'.file.lastHeartbeat = chat.file.lastHeartbeat]_vars

\* C5: processedMessageIds never holds more than 1000 entries; an insert into
\* a ledger below 1000 appends the ID, and an insert into a ledger of 1000
\* drops the oldest entry alone, keeps the other 999 in their order and puts
\* the new ID last.
C5_LedgerKeepsNewest1000 ==
  [][\A id \in LedgerIds :
       AddProcessed(id, TRUE) =>
         LET old == chat.file.processedMessageIds
             new == chat'.file.processedMessageIds
         IN /\ Len(old) <= LedgerCapacity
            /\ Len(new) <= LedgerCapacity
            /\ IF Len(old) < LedgerCapacity
               THEN new = Append(old, id)
               ELSE /\ Len(new) = LedgerCapacity
                    /\ new[LedgerCapacity] = id
                    /\ \A i \in 1..(LedgerCapacity - 1) : new[i] = old[i + 1]]_vars

\* an insert into a full ledger has dropped the oldest entry, 1
C5_Witness ==
  /\ Len(chat.file.processedMessageIds) = LedgerCapacity
  /\ chat.file.processedMessageIds[1] = 2
  /\ chat.file.processedMessageIds[LedgerCapacity] = LedgerCapacity + 1

\* C6: when the credentials are present with enabled = false at the chat
\* service's start, no chat timer is started and no chat request is sent in
\* that process, whatever the gateway's pinai-chat.start is asked later.
C6_DisabledNeverStarts ==
  chat.enabledAtStart = "disabled" =>
    /\ ~chat.hbsTimer /\ chat.hbsIntervals = 0
    /\ ~chat.mpTimer /\ chat.mpIntervals = 0
    /\ ~chat.requestSent

\* disabled at the start, enabled by the CLI since, and pinai-chat.start has
\* been asked and has answered
C6_Witness ==
  /\ chat.enabledAtStart = "disabled"
  /\ chat.file.enabled
  /\ chat.startRespond = "NOT_INITIALIZED"

\* C7: when disconnect was called with deleteRemote and the disconnect POST
\* fails, the step on which disconnect returns leaves the registration file
\* as it is and leaves no heartbeat, command-poll or reconnect timer running.
C7_RemoteFailureKeepsFileStopsTimers ==
  [][(disc.phase = "awaiting" /\ disc.opts.deleteRemote /\ DisconnectFinish(FALSE)) =>
       /\ regFile' = regFile
       /\ ~heartbeatTimer' /\ heartbeatIntervals' = 0
       /\ ~commandPollTimer' /\ commandPollIntervals' = 0
       /\ ~reconnectTimer']_vars

\* C8 as stated: disconnect clears the registration file exactly when clearing
\* was requested and the remote confirmation was not required or was given,
\* whether or not the manager holds a registration (with none held no
\* disconnect POST is made, so none succeeded); otherwise it leaves the file.
C8_ClearsIffRequested ==
  [][/\ \A o \in DisconnectOptions :
          (registration = NullReg /\ DisconnectCall(o)) =>
             regFile' = IF o.clearRegistration /\ ~o.deleteRemote THEN NullReg
                        ELSE regFile
     /\ \A o \in DisconnectOptions :
          (registration # NullReg /\ DisconnectCall(o)) => regFile' = regFile
     /\ \A ok \in BOOLEAN :
          DisconnectFinish(ok) =>
             regFile' = IF disc.opts.clearRegistration /\ (~disc.opts.deleteRemote \/ ok)
                        THEN NullReg ELSE regFile]_vars

\* C9: in a run with one pairing attempt whose status checks never report
\* registered, 'token-expired' is emitted at most once.
C9_TokenExpiredOnce ==
  (Len(pairings) = 1 /\ ~pairings[1].sawRegistered) => tokenExpiredEmits <= 1

\* C10: at most one pairing poll is alive at any time.
C10_OnePairingPollAlive ==
  Cardinality({i \in DOMAIN pairings : pairings[i].live}) <= 1

(* ------------------------------ ErrorHandler --------------------------- *)
\* C11 as stated: a withRetry whose function has failed only with
\* network-classified errors has slept with delays that never decrease and
\* never exceed maxDelayMs, and once it has thrown it has called the function
\* maxRetries times, slept between the calls, and thrown the network error.
C11_RetriesWithCappedDelays ==
  LET retry == errorHandler.retry IN
  (retry.categories = {"network"}) =>
     /\ retry.delaysNonDecreasing
     /\ retry.delaysCapped
     /\ retry.pc = "thrown" =>
          /\ retry.calls = retry.maxRetries
          /\ retry.sleeps = retry.maxRetries - 1
          /\ retry.thrown.category = "network"

\* C12: a withRetry whose function fails with an authentication-classified
\* error has called it once, has not slept and has thrown the classified,
\* non-retryable error, whatever maxRetries >= 1 it was given.
C12_AuthenticationNotRetried ==
  LET retry == errorHandler.retry IN
  (retry.categories = {"authentication"}) =>
     /\ retry.maxRetries >= 1
     /\ retry.pc = "thrown"
     /\ retry.calls = 1
     /\ retry.sleeps = 0
     /\ retry.thrown.category = "authentication"
     /\ ~retry.thrown.retryable

\* a withRetry with a budget of three attempts has thrown on an expired token
C12_Witness ==
  /\ errorHandler.retry.pc = "thrown"
  /\ errorHandler.retry.categories = {"authentication"}
  /\ errorHandler.retry.maxRetries = 3
  /\ errorHandler.retry.thrown.code = "E202"

\* C13 as stated: 'circuit-breaker-triggered' has been emitted exactly once
\* since the last reset when consecutiveFailures is at or above 10, and not at
\* all when it is below.
C13_CircuitBreakerOncePerCrossing ==
  errorHandler.circuitBreakerTriggered =
    IF errorHandler.consecutiveFailures >= CircuitBreakerThreshold THEN 1 ELSE 0

(* -------------------------------- pollers ------------------------------ *)
\* a start() of a chat poller that found it running: rejected with the
\* already-running error, timer, interval count, awaits and file as they were
ChatStartRejected(error) ==
  chat' = [chat EXCEPT !.thrown = error]

\* a step in which the pairing poll adopts a registration and so calls
\* startHeartbeat() and startCommandPolling()
StartsConnectorLoops ==
  \E i \in 1..MaxPairings : \E r \in StatusResponses :
    /\ r.ok /\ r.registered /\ r.saveOk
    /\ PairingResponse(i, r)

\* C14 as stated: for the two chat pollers and the connector's two loops, a
\* start while running is rejected and leaves the timer and the requests in
\* flight as they were, and a stop while not running changes nothing and
\* sends nothing.
C14_StartRejectedStopNoOp ==
  [][/\ (chat.hbsIsRunning /\ HeartbeatServiceStart) =>
           ChatStartRejected(HeartbeatAlreadyRunning)
     /\ (chat.mpIsRunning /\ MessagePollerStart) =>
           ChatStartRejected(PollerAlreadyRunning)
     /\ (~chat.hbsIsRunning /\ HeartbeatServiceStop) => chat' = chat
     /\ (~chat.mpIsRunning /\ MessagePollerStop) => chat' = chat
     /\ (heartbeatTimer /\ StartsConnectorLoops) => hbGroup' = hbGroup
     /\ (commandPollTimer /\ StartsConnectorLoops) => cmdGroup' = cmdGroup
     /\ \A o \in DisconnectOptions :
          (~heartbeatTimer /\ ~commandPollTimer /\ DisconnectCall(o)) =>
             hbGroup' = hbGroup /\ cmdGroup' = cmdGroup]_vars

\* C14 amended: a start of a chat poller while it is running is rejected and
\* leaves its timer untouched; a start of a connector loop while it is running
\* is not rejected: it clears the running timer, schedules a new one and sends
\* its request at once; a stop of any of the four while it is not running
\* changes nothing of the poller and sends nothing.
C14_ChatRejectsConnectorRestarts ==
  [][/\ (chat.hbsIsRunning /\ HeartbeatServiceStart) =>
           ChatStartRejected(HeartbeatAlreadyRunning)
     /\ (chat.mpIsRunning /\ MessagePollerStart) =>
           ChatStartRejected(PollerAlreadyRunning)
     /\ (~chat.hbsIsRunning /\ HeartbeatServiceStop) => chat' = chat
     /\ (~chat.mpIsRunning /\ MessagePollerStop) => chat' = chat
     /\ (heartbeatTimer /\ StartsConnectorLoops) =>
           /\ heartbeatTimer' /\ heartbeatIntervals' = heartbeatIntervals
           /\ hbInflight' = SatInflight(hbInflight)
           /\ status' = "connected"
     /\ (commandPollTimer /\ StartsConnectorLoops) =>
           /\ commandPollTimer' /\ commandPollIntervals' = commandPollIntervals
           /\ cmdInflight' = SatInflight(cmdInflight)
     /\ \A o \in DisconnectOptions :
          (~heartbeatTimer /\ ~commandPollTimer /\ DisconnectCall(o)) =>
             hbGroup' = hbGroup /\ cmdGroup' = cmdGroup]_vars

\* a start of the heartbeat service was rejected while its timer ran
C14_Witness ==
  /\ chat.thrown = HeartbeatAlreadyRunning
  /\ chat.hbsIsRunning /\ chat.hbsTimer /\ chat.hbsIntervals = 1

(* ------------------------------ failed ticks --------------------------- *)
\* C15 as stated: no failed tick is fatal: the gateway process is never ended
\* by the failure of a chat heartbeat or message-poll tick.
C15_FailedTickNeverFatal == ~chat.crashed

\* C16 as stated: at most one tick of each poller is in progress at any time:
\* of the chat message poll (awaiting getConversations or getMessages), of the
\* chat heartbeat, of the connector's heartbeat and of its command poll.
C16_TicksNeverOverlap ==
  /\ chat.pending["tick.conversations"] + chat.pending["tick.messages"] <= 1
  /\ chat.pending["tick.heartbeat"] <= 1
  /\ hbInflight <= 1
  /\ cmdInflight <= 1

(* ----------------------------- construction --------------------------- *)
\* C17: a manager constructed over a saved registration is 'connected' at
\* once, and until setWorkContextDependencies is called it has made no request
\* and runs neither the heartbeat nor the command-poll timer; that call starts
\* one timer of each.
C17_ResumeDefersLoops ==
  /\ [](( ~workContextDeps /\ registration # NullReg) =>
          /\ status = "connected"
          /\ ~heartbeatTimer /\ heartbeatIntervals = 0
          /\ ~commandPollTimer /\ commandPollIntervals = 0
          /\ hbInflight = 0 /\ cmdInflight = 0 /\ wcCollecting = 0
          /\ wcPosting = 0 /\ pairings = <<>>)
  /\ [][(registration # NullReg /\ SetWorkContextDependencies) =>
          /\ heartbeatTimer' /\ heartbeatIntervals' = 1
          /\ commandPollTimer' /\ commandPollIntervals' = 1
          /\ hbInflight' = 1 /\ cmdInflight' = 1]_vars

\* the dependencies were given to a manager that restored a registration and
\* has done nothing else since
C17_Witness ==
  /\ workContextDeps
  /\ registration # NullReg
  /\ heartbeatTimer /\ commandPollTimer
  /\ pairings = <<>>
  /\ disc = NoDisconnect

(* --------------------- handling of commands and messages --------------- *)
\* C18 as stated: a command or a chat message whose handling has ended in a
\* local failure (unknown command type, AI error or timeout, failed reply)
\* has had a failed status reported to the remote side.
C18_FailuresReported ==
  /\ (processing.command.pc = "done" /\ processing.command.failed) =>
        processing.command.reported = "failed"
  /\ (processing.message.pc = "done" /\ processing.message.failed) =>
        processing.message.reported = "failed"

(* ---------------------------- the enabled flag ------------------------- *)
\* C19 as stated: the persisted enabled flag changes only in the write of an
\* explicit chat start/stop (updateChatEnabled); no write of the gateway's
\* heartbeat-timestamp or processed-ID updates alters or reverts it.
C19_EnabledOnlyByStartStop ==
  [][(store'.file.enabled # store.file.enabled) =>
        /\ store.cli.pc = "loaded"
        /\ store'.cli.pc = "idle"
        /\ store'.file.enabled = store.cli.credentials.enabled]_vars

\* C20 as stated: a chat stop from the CLI leaves no chat timer running in the
\* gateway, and a chat start has the gateway's chat manager starting or
\* running, in the same step that writes the flag.
C20_StartStopImmediate ==
  [][/\ CliChatEnabled(FALSE) =>
          /\ ~chat'.hbsTimer /\ chat'.hbsIntervals = 0
          /\ ~chat'.mpTimer /\ chat'.mpIntervals = 0
     /\ CliChatEnabled(TRUE) =>
          \/ chat'.isRunning
          \/ SumOver(chat'.pending, StartAwaits) > 0]_vars

(* ------------------------------ session keys --------------------------- *)
\* C21 as stated: two AI runs for distinct items (two commands, two chat
\* messages, or a command and a message) never have the same session key.
C21_SessionKeyPerItem ==
  \A r1, r2 \in processing.runs :
    (r1.channel # r2.channel \/ r1.item # r2.item) => r1.sessionId # r2.sessionId

\* C21 amended: the session key is derived per command and per chat peer: two
\* runs have the same key exactly when they are for the same command, or for
\* chat messages of the same peer.
C21_SessionKeyPerCommandAndPeer ==
  \A r1, r2 \in processing.runs :
    (r1.sessionId = r2.sessionId) <=>
       /\ r1.channel = r2.channel
       /\ IF r1.channel = "command" THEN r1.item = r2.item
          ELSE PeerOf(r1.item) = PeerOf(r2.item)

\* both commands and the messages of both peers have been run
C21_Witness ==
  /\ \A commandId \in PromptCommandIds :
       \E r \in processing.runs : r.channel = "command" /\ r.item = commandId
  /\ \A messageId \in ChatMessageIds :
       \E r \in processing.runs : r.channel = "chat" /\ r.item = messageId

(* ------------------------------- pairing ------------------------------- *)
\* C22 as stated: a status response with both registered and expired set is
\* handled as expired: 'token-expired' is emitted, the token is cleared and the
\* poll stopped, and no registration is created or persisted, no loop started
\* and the status left as it was.
C22_ExpiredWins ==
  [][\A i \in 1..MaxPairings : \A r \in StatusResponses :
       (r.ok /\ r.registered /\ r.expired /\ PairingResponse(i, r)) =>
          /\ tokenExpiredEmits' = Sat(tokenExpiredEmits)
          /\ currentToken' = 0
          /\ ~pairings'[i].live
          /\ registration' = registration
          /\ regFile' = regFile
          /\ status' = status
          /\ hbGroup' = hbGroup
          /\ cmdGroup' = cmdGroup]_vars

\* the registration held was written by another process and adopted by the
\* filesystem watcher: the constructor finds only connector cA's file and the
\* pairing poll only registers PollConnectorIds
AdoptedByWatcher ==
  /\ registration # NullReg
  /\ registration.token = ExternalToken
  /\ registration.connectorId \notin PollConnectorIds

\* C23 as stated: once the watcher has adopted an externally written
\* registration, no result of the manager's own pairing poll replaces it in
\* memory or rewrites the registration file.
C23_AdoptedRegistrationKept ==
  [][\A i \in 1..MaxPairings : \A r \in StatusResponses :
       (AdoptedByWatcher /\ PairingResponse(i, r)) =>
          /\ registration' = registration
          /\ regFile' = regFile]_vars

(* C24: for every registration whose connectorId, token and deviceName are
   non-empty, saveRegistration followed by loadRegistration returns a
   registration with the same connectorId, token and deviceName. *)
C24_RoundTrip ==
  (/\ registrationStore.pc = "savedLoaded"
   /\ registrationStore.saved.connectorId \notin {Undefined, ""}
   /\ registrationStore.saved.token \notin {Undefined, ""}
   /\ registrationStore.saved.deviceName \notin {Undefined, ""})
  => /\ registrationStore.loaded # NullRegistration
     /\ registrationStore.loaded.connectorId = registrationStore.saved.connectorId
     /\ registrationStore.loaded.token = registrationStore.saved.token
     /\ registrationStore.loaded.deviceName = registrationStore.saved.deviceName

\* a complete registration with report time 0 saved and loaded back
C24_Witness ==
  /\ registrationStore.pc = "savedLoaded"
  /\ registrationStore.saved =
       [connectorId |-> "cA", deviceName |-> "Mac", token |-> "t2",
        lastWorkContextReportTime |-> 0]
  /\ registrationStore.loaded.token = "t2"

\* C25 as stated: a status check that answers registered leaves the manager
\* 'connected' with the registration held and persisted, the pairing token
\* cleared, the pairing poll stopped and the heartbeat and command-poll timers
\* held.
C25_RegisteredConnects ==
  [][\A i \in 1..MaxPairings : \A r \in StatusResponses :
       (r.ok /\ r.registered /\ PairingResponse(i, r)) =>
          /\ status' = "connected"
          /\ registration' # NullReg
          /\ regFile' = registration'
          /\ currentToken' = 0
          /\ ~pairings'[i].live
          /\ heartbeatTimer'
          /\ commandPollTimer']_vars

\* C26 as stated: once 'token-expired' has been emitted for a pairing attempt,
\* no status check is started for its token and no answer to one of its
\* status checks changes the registration held.
C26_ExpiredAttemptIsOver ==
  [][\A i \in 1..MaxPairings :
       (i \in DOMAIN pairings /\ pairings[i].expired) =>
          /\ ~PairingTickFetch(i)
          /\ \A r \in StatusResponses :
               PairingResponse(i, r) => registration' = registration]_vars

\* C27 as stated: the status is 'connected' exactly when a registration is
\* held in memory.
C27_ConnectedIffRegistered ==
  (status = "connected") <=> (registration # NullReg)

(* --------------------------- ledger commit ----------------------------- *)
\* C28 as stated: when the AI run for an emitted message has completed, and
\* when its reply is being sent or was sent, the message's ID is in the
\* persisted ledger.
C28_CommittedBeforeProcessingCompletes ==
  processing.message.pc \in {"sending", "done"} =>
    isMessageProcessed(Credentials(TRUE, processing.ledger), processing.message.id)

(* -------------------------- overlapping starts ------------------------- *)
\* C29 as stated: with start() calls of a poller overlapping, at most one
\* interval timer of each poller exists, and none of a poller whose last
\* start() or stop() was a stop().
C29_OneTimerPerPoller ==
  /\ chat.hbsIntervals <= 1
  /\ chat.mpIntervals <= 1
  /\ chat.hbsStopped => chat.hbsIntervals = 0
  /\ chat.mpStopped => chat.mpIntervals = 0

(* ---------------------------- work context ----------------------------- *)
(* C30: at most one work-context collection or report is in progress at any
   time: a sendHeartbeat that finds a report due while one is in flight
   starts no second collection and sends no second report. *)
C30_OneCollectionInFlight ==
  wcCollecting + wcPosting <= 1

\* a heartbeat found a report due while the collection in flight was running
C30_Witness ==
  /\ wcSkipped
  /\ isCollectingWorkContext
  /\ wcCollecting + wcPosting = 1

(* ------------------------- stopping the chat --------------------------- *)
\* C31 as stated: no stop of the chat manager, whatever state the manager is
\* in, ends in an error.
C31_StopNeverThrows ==
  chat.thrown # ChatNotRunning

(* ----------------------------- expiry timer ---------------------------- *)
\* C32 as stated: the expiry timer of a token that generateQRCode has since
\* replaced neither emits 'token-expired' nor clears the newer token.
C32_TimerExpiresOwnTokenOnly ==
  [][\A i \in 1..MaxPairings :
       (ExpiryTimer(i) /\ currentToken # 0 /\ currentToken # i) =>
          /\ currentToken' = currentToken
          /\ tokenExpiredEmits' = tokenExpiredEmits]_vars

(* ---------------------------- failed start ----------------------------- *)
\* the manager is not running, neither poller is running or holds a timer,
\* and no interval of either is scheduled
ChatAllStopped(st) ==
  /\ ~st.isRunning
  /\ ~st.hbsIsRunning /\ ~st.hbsTimer /\ st.hbsIntervals = 0
  /\ ~st.mpIsRunning /\ ~st.mpTimer /\ st.mpIntervals = 0

(* C33 as stated: when AgentHubChatManager.start() throws because its online
   heartbeat, HeartbeatService.start or the first message poll failed,
   isRunning is false, neither poller has a timer and both pollers are
   stopped, so that start() can be called again. The throw follows the
   failure at once when cleanup has nothing to await, and the offline
   heartbeat of cleanup otherwise. *)
C33_FailedStartLeavesStopped ==
  /\ [][(StartOnlineResponse(FALSE) /\ chat'.pending["start.offline"] = 0)
          => ChatAllStopped(chat')]_vars
  /\ [][\A ok \in BOOLEAN : \A unread \in BOOLEAN : \A saveOk \in BOOLEAN :
          (/\ sendHeartbeatThrows(chat, ok, saveOk)
           /\ StartHeartbeatResponse(ok, unread, saveOk)
           /\ chat'.pending["start.offline"] = 0)
          => ChatAllStopped(chat')]_vars
  /\ [][\A unread \in BOOLEAN :
          (StartConversationsResponse(FALSE, unread)
           /\ chat'.pending["start.offline"] = 0)
          => ChatAllStopped(chat')]_vars
  /\ [][OfflineResponse("start.offline") => ChatAllStopped(chat')]_vars

(* ------------------------ work-context report time --------------------- *)
\* C34 as stated: a work-context POST that failed or that the backend
\* rejected leaves the last report time as it was, in memory, in the
\* registration held and in the registration file; so does a collection that
\* threw or gave an empty context.
C34_ReportTimeOnlyAfterAcceptedPost ==
  /\ [][\A resolved \in BOOLEAN : \A accepted \in BOOLEAN : \A saveOk \in BOOLEAN :
          (WorkContextPosted(resolved, accepted, saveOk) /\ ~(resolved /\ accepted))
          => UNCHANGED <<lastWorkContextReportTime, registration, regFile>>]_vars
  /\ [][\A result \in {"throw", "empty", "ok"} :
          WorkContextCollected(result)
          => UNCHANGED <<lastWorkContextReportTime, registration, regFile>>]_vars

(* ---------------------------- message filter --------------------------- *)
\* message m is in the response with the conversation peer as its sender
FromPeerIn(messages, m) ==
  \E i \in DOMAIN messages : messages[i].id = m /\ messages[i].fromPeer

(* C35: the message poller emits 'new-message' for a message ID, and adds
   the ID to the ledger, only when the getMessages response holds that
   message with the conversation peer as sender; and it asks for messages
   only for a conversation with unread_count > 0. *)
C35_OnlyPeerMessagesOfUnreadConversations ==
  /\ [][\A ok \in BOOLEAN : \A messages \in BoundedSeq(Messages, MaxBatch) :
        \A saveOk \in BOOLEAN : \A m \in MsgIds :
          (MessagePollerMessages(ok, messages, saveOk) /\ ~FromPeerIn(messages, m))
          => /\ chat'.newMessage[m] = chat.newMessage[m]
             /\ isMessageProcessed(chat'.file, m) = isMessageProcessed(chat.file, m)]_vars
  /\ [][\A ok \in BOOLEAN :
          MessagePollerConversations(ok, FALSE)
          => chat'.pending["start.messages"] = chat.pending["start.messages"]]_vars

\* a first poll's response held a message that was not from the peer, and
\* nothing was emitted or recorded
C35_Witness ==
  /\ chat.firstPollNotFromPeer
  /\ chat.mpIsRunning
  /\ chat.newMessage["m1"] = 0
  /\ ~isMessageProcessed(chat.file, "m1")

(* -------------------------- connector intervals ------------------------ *)
(* C36: at most one heartbeat interval and at most one command-poll interval
   of the manager are scheduled at any time, and each is the one the manager
   holds the handle of. *)
C36_OneIntervalPerLoop ==
  /\ heartbeatIntervals = (IF heartbeatTimer THEN 1 ELSE 0)
  /\ commandPollIntervals = (IF commandPollTimer THEN 1 ELSE 0)

\* two pairing polls registered one after the other with no disconnect in
\* between: the second started the loops while the intervals of the first
\* were scheduled
C36_Witness ==
  /\ Len(pairings) = 2
  /\ pairings[1].sawRegistered /\ pairings[1].attempts = 0
  /\ pairings[2].sawRegistered
  /\ registration # NullReg
  /\ registration.token = 2
  /\ regFile = registration
  /\ disc = NoDisconnect
  /\ heartbeatIntervals = 1
  /\ commandPollIntervals = 1

(* --------------------------- token request ----------------------------- *)
(* C37: a generateQRCode whose token request failed leaves the manager as it
   was: no token stored, no expiry timer and no pairing poll started, status
   and registration unchanged. *)
C37_FailedTokenRequestChangesNothing ==
  [][GenerateQRCode(FALSE) => UNCHANGED connVars]_vars

\* generateQRCode can be called again while the token of an earlier call is
\* current and its poll runs: a failed request leaves exactly this state
C37_Witness ==
  /\ workContextDeps
  /\ Len(pairings) = 1
  /\ pairings[1].live /\ pairings[1].expiry
  /\ currentToken = 1
  /\ registration = NullReg
  /\ status = "disconnected"

\* C38: a manager constructed on a registration document that does not parse
\* or lacks connectorId, token or deviceName has loaded null and, while the
\* document is as it found it, is unregistered: status "disconnected", no
\* registration, the registration watcher armed
C38_InvalidDocumentIsAbsent ==
  (/\ registrationStore.pc = "constructed"
   /\ regFile = AsRegFile(registrationStore.file)
   /\ \/ registrationStore.file = Corrupt
      \/ /\ registrationStore.file \notin {NoFile, Corrupt}
         /\ \E key \in {"connectorId", "token", "deviceName"} :
              ParsedMember(registrationStore.file, key) \in {Undefined, ""})
  => /\ registrationStore.loaded = NullRegistration
     /\ registration = NullReg
     /\ status = "disconnected"
     /\ registrationWatcher

\* a manager constructed on a document with an empty token, its dependencies set
C38_Witness ==
  /\ registrationStore.pc = "constructed"
  /\ registrationStore.file \notin {NoFile, Corrupt}
  /\ ParsedMember(registrationStore.file, "connectorId") = "cA"
  /\ ParsedMember(registrationStore.file, "deviceName") = "Mac"
  /\ ParsedMember(registrationStore.file, "token") = ""
  /\ regFile = AsRegFile(registrationStore.file)
  /\ workContextDeps
  /\ registration = NullReg
  /\ registrationWatcher

\* the item cached by call `payload` is among the items
HoldsPayload(items, payload) == \E i \in DOMAIN items : items[i].payload = payload

\* C39: no item with attempts >= maxAttempts is retained, in memory or on
\* disk, and the incrementAttempt call that brings an item's attempts to its
\* maxAttempts returns false and leaves the item neither in memory nor on disk
C39_ExhaustedItemIsRemoved ==
  /\ [](\A i \in DOMAIN errorHandler.pending.pendingData :
          errorHandler.pending.pendingData[i].attempts
            < errorHandler.pending.pendingData[i].maxAttempts)
  /\ [][\A index \in PendingIndices : \A saveOk \in BOOLEAN :
          (/\ IncrementAttempt(index, saveOk)
           /\ index >= 0
           /\ index < Len(errorHandler.pending.pendingData)
           /\ errorHandler.pending.pendingData[index + 1].attempts + 1
                >= errorHandler.pending.pendingData[index + 1].maxAttempts)
          => /\ errorHandler'.pending.returned = "false"
             /\ ~HoldsPayload(errorHandler'.pending.pendingData,
                              errorHandler.pending.pendingData[index + 1].payload)
             /\ ~HoldsPayload(errorHandler'.pending.file.items,
                              errorHandler.pending.pendingData[index + 1].payload)]_vars

\* C40: the 'network-lost' and 'network-restored' events alternate, starting
\* with 'network-lost'; a probe emits one exactly when it changes the online
\* flag: 'network-lost' when the flag goes offline, 'network-restored' when
\* it comes back, and nothing when the flag is as it was
C40_EventsOnlyOnTransitions ==
  LET events == errorHandler.network.events IN
  /\ \A i \in DOMAIN events :
       events[i] = IF i % 2 = 1 THEN "network-lost" ELSE "network-restored"
  /\ errorHandler.network.isOnline <=> (Len(events) % 2 = 0)
  /\ errorHandler.network.pc = "idle" /\ errorHandler.network.probes > 0
       => errorHandler.network.emitted =
            IF errorHandler.network.wasOffline = ~errorHandler.network.isOnline
            THEN 0 ELSE 1

\* four probes: offline, still offline, back online, offline again
C40_Witness ==
  /\ errorHandler.network.pc = "idle"
  /\ errorHandler.network.probes = 4
  /\ errorHandler.network.events = <<"network-lost", "network-restored", "network-lost">>
  /\ ~errorHandler.network.isOnline

====
